---- MODULE Spec2Model ----
(***************************************************************************)
(* State-machine model of src/src/app/StarlinkVisualization.tsx: the       *)
(* ingestion of the orbital-element records (loadStarlink), the simulation *)
(* clock and the position cache of the frame callback (draw), and the      *)
(* input handlers that change what the frame callback reads.               *)
(*                                                                         *)
(* Units.  Times are integer milliseconds on one real-time axis whose      *)
(* origin is the instant loadStarlink receives its response.  Altitudes    *)
(* are kilometres.  Inclinations are tenths of a degree (529 = 52.9 deg),  *)
(* eccentricities are thousandths (10 = 0.01).  A string the program       *)
(* builds from numbers is a sequence of one-character strings.  A value    *)
(* that may be null is a sequence of length 0 (null) or 1.                 *)
(***************************************************************************)
EXTENDS Integers, Sequences, FiniteSets, TLC

VARIABLES
  clock,                 \* real time now (what Date.now() returns, ms)
  load,                  \* loadStarlink: "fetching", "retry" or "ingested"
  docs,                  \* the response's records (allDocs); a satrec is an index into it
  satellites,            \* satellitesRef.current
  stats,                 \* stats state (total, tle)
  inclinationGroups,     \* inclinationGroups state
  inclinationGroupsRef,  \* inclinationGroupsRef.current
  loading,               \* loading state
  loadTimer,             \* the setTimeout(() => setLoading(false), 800) is pending
  rafPending,            \* a requestAnimationFrame(draw) callback is scheduled
  speed,                 \* speed state
  speedRef,              \* speedRef.current
  timeOffset,            \* timeOffsetRef.current
  pausedTime,            \* pausedTimeRef.current (null or a time)
  lastFrameTime,         \* lastFrameTimeRef.current
  frameCount,            \* frameCountRef.current
  lastSatUpdate,         \* lastSatUpdateRef.current
  cachedSatPositions,    \* cachedSatPositionsRef.current
  isDragging,            \* isDraggingRef.current
  isRightDragging,       \* isRightDraggingRef.current
  simDate,               \* the simDate of the last frame (null before the first)
  frame,                 \* what the last frame did: the speed it read, its dt and
                         \* the Date.now() of its clock update
  toggled,               \* a group was toggled since the last frame ran
  hist,                  \* the frames' progress through a pause, 100x, pause sequence
  mounted,               \* the component is mounted
  listeners,             \* the input listeners attached to the canvas and the window
  worldMap,              \* loadWorldMap: "ready" or "failed"
  countryPolygons,       \* countryPolygonsRef.current (the rings' names)
  mouseDownPos,          \* mouseDownPosRef of the render effect
  lastMouse,             \* lastMouseRef.current
  dragRot,               \* dragRotRef.current (thousandths of a radian)
  panOffset,             \* panOffsetRef.current
  zoom,                  \* zoomRef.current (thousandths)
  mouseCanvas,           \* mouseCanvasRef.current
  clicks,                \* due: the browser owes the click that follows a release
  hoveredSat,            \* hoveredSatRef.current
  selectedSat,           \* selectedSatRef.current
  showAllTrajectories,   \* showAllTrajectories state
  showAllTrajectoriesRef,\* showAllTrajectoriesRef.current
  trajectoryMinutes,     \* trajectoryMinutes state
  trajectoryMinutesRef,  \* trajectoryMinutesRef.current
  rendered,              \* the handles of the points the last frame drew
  trajectories,          \* the trajectories the last frame stroked
  validity,              \* per handle, the time and result of its last isTrajectoryValid run
  ringPaths,             \* per ring, the fill path and the border strokes of the last frame
  viewed,                \* the rotated and projected points of the last frame (null
                         \* before the first)
  placed                 \* the points geoToXYZ gave the last frame for the ring
                         \* vertices and for the first sample of each trajectory drawn

vars == <<clock, load, docs, satellites, stats, inclinationGroups,
          inclinationGroupsRef, loading, loadTimer, rafPending, speed, speedRef,
          timeOffset, pausedTime, lastFrameTime, frameCount, lastSatUpdate,
          cachedSatPositions, isDragging, isRightDragging, simDate, frame, toggled,
          hist, mounted, listeners, worldMap, countryPolygons, mouseDownPos, lastMouse,
          dragRot, panOffset, zoom, mouseCanvas, clicks, hoveredSat, selectedSat,
          showAllTrajectories, showAllTrajectoriesRef, trajectoryMinutes,
          trajectoryMinutesRef, rendered, trajectories, validity, ringPaths, viewed,
          placed>>

None == <<>>
Some(v) == <<v>>

Min(a, b) == IF a < b THEN a ELSE b

RECURSIVE SeqMax(_)
SeqMax(s) ==
  IF Len(s) = 1 THEN s[1]
  ELSE LET m == SeqMax(Tail(s)) IN IF s[1] > m THEN s[1] ELSE m

RECURSIVE SeqMin(_)
SeqMin(s) ==
  IF Len(s) = 1 THEN s[1]
  ELSE LET m == SeqMin(Tail(s)) IN IF s[1] < m THEN s[1] ELSE m

(***************************************************************************)
(* Number.prototype.toString and the template literal of the group label   *)
(* ("deg" stands for the degree sign).                                     *)
(***************************************************************************)
Digit(d) == <<"0", "1", "2", "3", "4", "5", "6", "7", "8", "9">>[d + 1]

RECURSIVE NatToString(_)
NatToString(n) ==
  IF n < 10 THEN <<Digit(n)>> ELSE NatToString(n \div 10) \o <<Digit(n % 10)>>

NumToString(n) == IF n < 0 THEN <<"-">> \o NatToString(-n) ELSE NatToString(n)

RangeLabel(bucket) ==
  NumToString(bucket) \o <<"-">> \o NumToString(bucket + 10) \o <<"deg">>

(***************************************************************************)
(* getInclinationBucket: Math.floor(inc / 10) * 10, inc in degrees.  With  *)
(* inc10 = 10 * inc, floor(inc / 10) = floor(inc10 / 100); \div rounds     *)
(* toward minus infinity as Math.floor does.                               *)
(***************************************************************************)
RoundedBucket(inc10) == ((inc10 + 50) \div 100) * 10

getInclinationBucket(inc10) == (inc10 \div 100) * 10

(***************************************************************************)
(* getColorForInclination.                                                 *)
(***************************************************************************)
getColorForInclination(bucket) ==
  IF bucket >= 50 /\ bucket < 60 THEN <<99, 102, 241>>
  ELSE IF bucket >= 60 /\ bucket < 80 THEN <<52, 211, 153>>
  ELSE IF bucket >= 90 THEN <<251, 146, 60>>
  ELSE IF bucket < 50 THEN <<59, 130, 246>>
  ELSE IF bucket >= 80 /\ bucket < 90 THEN <<163, 230, 53>>
  ELSE <<34, 211, 238>>

(***************************************************************************)
(* The external propagator.  A record's elements determine its track: the  *)
(* outcome of satellite.propagate + eciToGeodetic in each ten-minute slot  *)
(* after the load (the last slot lasts forever).  An outcome is "none"     *)
(* (propagate returns no position), "throws" (the geodetic conversion      *)
(* throws), "nan" (the altitude is NaN) or "ok" with an altitude.          *)
(***************************************************************************)
SampleStepMs == 10 * 60 * 1000

PosNone == [res |-> "none", alt |-> 0]
PosThrows == [res |-> "throws", alt |-> 0]
PosNaN == [res |-> "nan", alt |-> 0]
Pos(a) == [res |-> "ok", alt |-> a]

Propagate(track, t) == track[Min(t \div SampleStepMs, Len(track) - 1) + 1]

(***************************************************************************)
(* getSatLatLonAlt: null when propagate gives no position or anything      *)
(* throws, otherwise the geodetic position (its altitude may be NaN).      *)
(***************************************************************************)
getSatLatLonAlt(track, t) ==
  LET p == Propagate(track, t)
  IN IF p.res \in {"none", "throws"} THEN None ELSE Some(p)

(***************************************************************************)
(* loadStarlink, lines 146-226: the checks one record passes before it is  *)
(* pushed to satellitesRef.  t is the record's testDate (new Date()).      *)
(***************************************************************************)
LoadSamples(d, t) == [k \in 1..3 |-> Propagate(d.track, t + (k - 1) * SampleStepMs)]

SampleValid(p) == p.res = "ok" /\ ~(p.alt < 200 \/ p.alt > 1000)

AltitudesConsistent(samples) ==
  LET alts == [k \in 1..3 |-> samples[k].alt]
  IN ~(SeqMax(alts) - SeqMin(alts) > 50)

PassesWithoutDecayDate(d, t) ==
  /\ d.st /\ d.line1 /\ d.line2
  /\ ~(d.decayed = 1)
  /\ d.parse = "ok"
  /\ ~(d.ecco # 0 /\ d.ecco > 10)
  /\ Propagate(d.track, t).res # "none"
  /\ \A k \in 1..3 : SampleValid(LoadSamples(d, t)[k])
  /\ AltitudesConsistent(LoadSamples(d, t))

PassesLoadChecks(d, t) ==
  /\ d.st /\ d.line1 /\ d.line2
  /\ ~(d.decayed = 1 \/ d.decayDate)
  /\ d.parse = "ok"
  /\ ~(d.ecco # 0 /\ d.ecco > 10)
  /\ Propagate(d.track, t).res # "none"
  /\ \A k \in 1..3 : SampleValid(LoadSamples(d, t)[k])
  /\ AltitudesConsistent(LoadSamples(d, t))

\* st.INCLINATION || 0 and st.OBJECT_NAME || 'Unknown'
InclinationOf(d) == IF d.inc = None THEN 0 ELSE d.inc[1]
NameOf(d) == IF d.name = None THEN "Unknown" ELSE d.name[1]

SatelliteOf(d, i) ==
  LET bucket == getInclinationBucket(InclinationOf(d))
  IN [satrec |-> i, name |-> NameOf(d), inc |-> InclinationOf(d),
      group |-> NumToString(bucket), color |-> getColorForInclination(bucket)]

BucketAdd(buckets, bucket) ==
  IF bucket \in DOMAIN buckets
  THEN [buckets EXCEPT ![bucket] = @ + 1]
  ELSE [b \in DOMAIN buckets \cup {bucket} |-> IF b = bucket THEN 1 ELSE buckets[b]]

\* The for loop over allDocs: acc = [sats, buckets, tle].
RECURSIVE IngestLoop(_, _, _, _)
IngestLoop(allDocs, i, acc, t) ==
  IF i > Len(allDocs) THEN acc
  ELSE IF ~PassesLoadChecks(allDocs[i], t) THEN IngestLoop(allDocs, i + 1, acc, t)
  ELSE IngestLoop(allDocs, i + 1,
         [sats |-> Append(acc.sats, SatelliteOf(allDocs[i], i)),
          buckets |-> BucketAdd(acc.buckets,
                                getInclinationBucket(InclinationOf(allDocs[i]))),
          tle |-> acc.tle + 1], t)

\* Array.from(entries).sort((a, b) => a[0] - b[0])
RECURSIVE SortedBuckets(_)
SortedBuckets(S) ==
  IF S = {} THEN <<>>
  ELSE LET m == CHOOSE x \in S : \A y \in S : x <= y
       IN <<m>> \o SortedBuckets(S \ {m})

GroupsSortedDescending(buckets) ==
  LET keys == SortedBuckets(DOMAIN buckets)
  IN [k \in 1..Len(keys) |->
        LET b == keys[Len(keys) + 1 - k]
        IN [range |-> RangeLabel(b), minInc |-> b, maxInc |-> b + 10,
            count |-> buckets[b], color |-> getColorForInclination(b),
            enabled |-> TRUE]]

GroupsOf(buckets) ==
  LET keys == SortedBuckets(DOMAIN buckets)
  IN [k \in 1..Len(keys) |->
        [range |-> RangeLabel(keys[k]), minInc |-> keys[k], maxInc |-> keys[k] + 10,
         count |-> buckets[keys[k]], color |-> getColorForInclination(keys[k]),
         enabled |-> TRUE]]

EmptyBuckets == [b \in {} |-> 0]

(***************************************************************************)
(* The ground track.  Every modelled position lies on the equator          *)
(* (latitude 0); a record's lons gives its longitude in whole degrees,     *)
(* -180..180, in each five-minute slot after the load (the last slot lasts *)
(* forever).  SteadyLons advances 20 degrees per slot.                     *)
(***************************************************************************)
TrajectoryStepMs == 5 * 60 * 1000

LonAt(d, t) == d.lons[Min(t \div TrajectoryStepMs, Len(d.lons) - 1) + 1]

SteadyLons == <<0, 20, 40, 60, 80, 100, 120, 140, 160, 180, -160, -140>>

(***************************************************************************)
(* Records of the response.  st: the record has a spaceTrack object;       *)
(* line1, line2: TLE_LINE1 / TLE_LINE2 are present; decayed: DECAYED;      *)
(* decayDate: DECAY_DATE is present; parse: what twoline2satrec does       *)
(* ("ok", "error": satrec.error # 0, "throws"); ecco: satrec.ecco; track    *)
(* and lons: what the propagator answers for the record's elements.        *)
(***************************************************************************)
GoodDoc(inc, name, track) ==
  [st |-> TRUE, line1 |-> TRUE, line2 |-> TRUE, decayed |-> 0, decayDate |-> FALSE,
   parse |-> "ok", ecco |-> 1, track |-> track, name |-> name, inc |-> inc,
   lons |-> SteadyLons]

SteadyTrack == <<Pos(550), Pos(551), Pos(552), Pos(550)>>

Steady(inc, name) == GoodDoc(Some(inc), Some(name), SteadyTrack)

TrackDoc(track) == GoodDoc(Some(530), Some("T"), track)

IngestDocs ==
  { Steady(520, "A"), Steady(599, "A"), Steady(600, "B"), Steady(710, "B"),
    Steady(980, "C"), Steady(-5, "C"), GoodDoc(None, None, SteadyTrack),
    [Steady(520, "D") EXCEPT !.st = FALSE],
    [Steady(520, "D") EXCEPT !.line1 = FALSE],
    [Steady(520, "D") EXCEPT !.line2 = FALSE],
    [Steady(520, "D") EXCEPT !.decayed = 1],
    [Steady(520, "D") EXCEPT !.decayDate = TRUE],
    [Steady(520, "D") EXCEPT !.parse = "error"],
    [Steady(520, "D") EXCEPT !.parse = "throws"],
    [Steady(520, "D") EXCEPT !.ecco = 11],
    [Steady(850, "E") EXCEPT !.ecco = 10],
    [Steady(450, "E") EXCEPT !.ecco = 0],
    TrackDoc(<<PosNone, Pos(550), Pos(550), Pos(550)>>),
    TrackDoc(<<Pos(550), PosNone, Pos(550), Pos(550)>>),
    TrackDoc(<<Pos(550), Pos(550), PosThrows, Pos(550)>>),
    TrackDoc(<<Pos(550), PosNaN, Pos(550), Pos(550)>>),
    TrackDoc(<<Pos(199), Pos(200), Pos(201), Pos(550)>>),
    TrackDoc(<<Pos(200), Pos(225), Pos(250), PosNone>>),
    TrackDoc(<<Pos(1000), Pos(990), Pos(950), Pos(900)>>),
    TrackDoc(<<Pos(990), Pos(1001), Pos(990), Pos(900)>>),
    TrackDoc(<<Pos(500), Pos(551), Pos(520), Pos(500)>>) }

MaxDocs == 2

RECURSIVE SeqsUpTo(_, _)
SeqsUpTo(S, n) ==
  IF n = 0 THEN {<<>>}
  ELSE LET shorter == SeqsUpTo(S, n - 1)
       IN shorter \cup {Append(s, x) : s \in {q \in shorter : Len(q) = n - 1}, x \in S}

IngestDocLists == SeqsUpTo(IngestDocs, MaxDocs)

Abs(x) == IF x < 0 THEN -x ELSE x

Max(a, b) == IF a > b THEN a ELSE b

RECURSIVE SeqSum(_)
SeqSum(s) == IF Len(s) = 0 THEN 0 ELSE s[1] + SeqSum(Tail(s))

(***************************************************************************)
(* The view.  Screen coordinates are CSS pixels; the canvas rectangle has  *)
(* its corner at the client origin.  The rotations of project (lines       *)
(* 428-444) are not computed here: a frame is given, per element handle,   *)
(* the view-space coordinates <<rx, ry, rz>> (pixels at zoom 1) that       *)
(* rotateY and rotateX produce for the handle's cached position, and per   *)
(* ring the projected points of the ring.  The zoom is kept in             *)
(* thousandths; the screen coordinates of a projected satellite are kept   *)
(* in thousandths of a pixel (x = 1000 * cx + rx * zoom).                  *)
(***************************************************************************)
EARTH_R == 210

CanvasW == 800
CanvasH == 600

\* sqrt(s) < r and z < sqrt(s) for s >= 0, decided on the squares.
SqrtBelow(s, r) == r > 0 /\ s < r * r
BelowSqrt(z, s) == z < 0 \/ z * z < s

OccludedAtSurface(rx, ry, rz) ==
  LET distToAxis2 == rx * rx + ry * ry
  IN IF SqrtBelow(distToAxis2, EARTH_R)
     THEN rz <= 0 \/ rz * rz <= EARTH_R * EARTH_R - distToAxis2
     ELSE FALSE

\* The hover pass, lines 785-790.
OccludedHover(rx, ry, rz) ==
  LET distToAxis2 == rx * rx + ry * ry
  IN IF SqrtBelow(distToAxis2, EARTH_R)
     THEN BelowSqrt(rz, EARTH_R * EARTH_R - distToAxis2)
     ELSE FALSE

\* The drawing pass, lines 811-820.
OccludedRender(rx, ry, rz) ==
  LET distToAxis2 == rx * rx + ry * ry
  IN IF SqrtBelow(distToAxis2, EARTH_R)
     THEN BelowSqrt(rz, EARTH_R * EARTH_R - distToAxis2)
     ELSE FALSE

\* drawTrajectory, lines 937-946: the visible flag of a sample point.
TrajectoryVisible(rx, ry, rz) ==
  LET distToAxis2 == rx * rx + ry * ry
  IN IF SqrtBelow(distToAxis2, EARTH_R)
     THEN ~BelowSqrt(rz, EARTH_R * EARTH_R - distToAxis2)
     ELSE TRUE

\* Lines 493-497: the rectangle of a canvas that left the document is empty.
Center(pan, isMounted) ==
  IF isMounted THEN <<CanvasW \div 2 + pan[1], CanvasH \div 2 + pan[2]>> ELSE pan

\* Lines 767-774: a cached position with its view-space point pt; c is <<cx, cy>>.
ProjectSat(sat, pt, c, z) ==
  [x |-> 1000 * c[1] + pt[1] * z, y |-> 1000 * c[2] - pt[2] * z,
   z |-> pt[3], rx |-> pt[1], ry |-> pt[2], rz |-> pt[3],
   name |-> sat.name, satrec |-> sat.satrec, color |-> sat.color]

\* projectedSats.sort((a, b) => a.z - b.z): ascending and stable.
RECURSIVE InsertByZ(_, _)
InsertByZ(sorted, sp) ==
  IF Len(sorted) = 0 THEN <<sp>>
  ELSE IF sorted[Len(sorted)].z <= sp.z THEN Append(sorted, sp)
  ELSE Append(InsertByZ(SubSeq(sorted, 1, Len(sorted) - 1), sp), sorted[Len(sorted)])

RECURSIVE SortByZ(_, _, _)
SortByZ(sps, i, sorted) ==
  IF i > Len(sps) THEN sorted ELSE SortByZ(sps, i + 1, InsertByZ(sorted, sps[i]))

ProjectedSats(positions, sats, c, z) ==
  SortByZ([k \in 1..Len(positions) |->
             ProjectSat(positions[k], sats[positions[k].satrec], c, z)], 1, <<>>)

RECURSIVE ClosestSatLatest(_, _, _, _)
ClosestSatLatest(sps, i, mouse, closest) ==
  IF i > Len(sps) THEN closest
  ELSE LET sp == sps[i]
           dx == sp.x - 1000 * mouse[1]
           dy == sp.y - 1000 * mouse[2]
           dist2 == dx * dx + dy * dy
       IN IF /\ ~OccludedHover(sp.rx, sp.ry, sp.rz)
             /\ Abs(dx) < 10 * 1000 /\ Abs(dy) < 10 * 1000
             /\ dist2 < (10 * 1000) * (10 * 1000)
          THEN ClosestSatLatest(sps, i + 1, mouse,
                 Some([name |-> sp.name, x |-> sp.x, y |-> sp.y, dist2 |-> dist2]))
          ELSE ClosestSatLatest(sps, i + 1, mouse, closest)

\* The hover loop, lines 784-801, from index i on; dist2 is the squared distance
\* to the pointer in thousandths of a pixel, looked at only within the 10 px box (a
\* point outside the box is farther than 10 px).
RECURSIVE ClosestSat(_, _, _, _)
ClosestSat(sps, i, mouse, closest) ==
  IF i > Len(sps) THEN closest
  ELSE LET sp == sps[i]
           dx == sp.x - 1000 * mouse[1]
           dy == sp.y - 1000 * mouse[2]
           dist2 == dx * dx + dy * dy
       IN IF /\ ~OccludedHover(sp.rx, sp.ry, sp.rz)
             /\ Abs(dx) < 10 * 1000 /\ Abs(dy) < 10 * 1000
             /\ dist2 < (10 * 1000) * (10 * 1000)
             /\ (closest = None \/ dist2 < closest[1].dist2)
          THEN ClosestSat(sps, i + 1, mouse,
                          Some([name |-> sp.name, x |-> sp.x, y |-> sp.y, dist2 |-> dist2]))
          ELSE ClosestSat(sps, i + 1, mouse, closest)

\* Line 803.
HoveredOf(closest) ==
  IF closest = None THEN None
  ELSE Some([name |-> closest[1].name, x |-> closest[1].x, y |-> closest[1].y])

\* The drawing loop, lines 806-840: the handles of the points drawn, in order.
RECURSIVE RenderedSats(_, _)
RenderedSats(sps, i) ==
  IF i > Len(sps) THEN <<>>
  ELSE IF OccludedRender(sps[i].rx, sps[i].ry, sps[i].rz) THEN RenderedSats(sps, i + 1)
  ELSE <<sps[i].satrec>> \o RenderedSats(sps, i + 1)

(***************************************************************************)
(* isTrajectoryValid, lines 849-908.  d is the record of the handle, sim   *)
(* is simDate.getTime().                                                   *)
(***************************************************************************)
TestSteps == 10

\* The sampling loop, lines 855-870, from sample i on: None when a sample makes the
\* function return false, otherwise the positions.
RECURSIVE ValiditySamples(_, _, _, _)
ValiditySamples(d, sim, i, positions) ==
  IF i >= TestSteps THEN Some(positions)
  ELSE LET testTime == sim + i * TrajectoryStepMs
           pos == getSatLatLonAlt(d.track, testTime)
       IN IF pos = None \/ pos[1].res = "nan" THEN None
          ELSE IF pos[1].alt < 100 \/ pos[1].alt > 2000 THEN None
          ELSE ValiditySamples(d, sim, i + 1,
                 Append(positions, [alt |-> pos[1].alt, lon |-> LonAt(d, testTime)]))

\* Lines 886-893 for two positions on the equator, where a = sin(dLon / 2) ^ 2 and c
\* is |dLon| folded into 0..180 degrees; the result is in units of pi / 360 km.
SampleDistance(pos1, pos2) ==
  LET dLon == Abs(pos2.lon - pos1.lon)
      c == IF dLon <= 180 THEN dLon ELSE 360 - dLon
  IN (2 * 6371 + pos1.alt + pos2.alt) * c

Velocities(positions) ==
  [i \in 1..(Len(positions) - 1) |-> SampleDistance(positions[i], positions[i + 1])]

VelocitiesWithin60(velocities) ==
  LET sum == SeqSum(velocities)
      n == Len(velocities)
  IN \A k \in 1..n : ~(10 * Abs(n * velocities[k] - sum) > 6 * sum)

\* Lines 899-905: |vel - avg| / avg > 0.5 with avg = sum / n is
\* 2 * |n * vel - sum| > sum; with sum = 0 the quotient is NaN and nothing is rejected.
VelocitiesConsistent(velocities) ==
  LET sum == SeqSum(velocities)
      n == Len(velocities)
  IN \A k \in 1..n : ~(2 * Abs(n * velocities[k] - sum) > sum)

isTrajectoryValid(d, sim) ==
  LET samples == ValiditySamples(d, sim, 0, <<>>)
  IN IF samples = None THEN FALSE
     ELSE LET altitudes == [k \in 1..Len(samples[1]) |-> samples[1][k].alt]
          IN IF SeqMax(altitudes) - SeqMin(altitudes) > 100 THEN FALSE
             ELSE VelocitiesConsistent(Velocities(samples[1]))

(***************************************************************************)
(* geoToXYZ, lines 462-466.  Angles are whole degrees; Math.sin and        *)
(* Math.cos are read from a table of thousandths.  The radius is in        *)
(* thousandths of a pixel and the point in millionths.                     *)
(***************************************************************************)
Sin(deg) ==
  LET a == deg % 360
      SinTable ==
        << 0, 17, 35, 52, 70, 87, 105, 122, 139, 156, 174, 191, 208, 225, 242, 259, 276, 292,
           309, 326, 342, 358, 375, 391, 407, 423, 438, 454, 469, 485, 500, 515, 530, 545, 559,
           574, 588, 602, 616, 629, 643, 656, 669, 682, 695, 707, 719, 731, 743, 755, 766, 777,
           788, 799, 809, 819, 829, 839, 848, 857, 866, 875, 883, 891, 899, 906, 914, 921, 927,
           934, 940, 946, 951, 956, 961, 966, 970, 974, 978, 982, 985, 988, 990, 993, 995, 996,
           998, 999, 999, 1000, 1000 >>
  IN IF a <= 90 THEN SinTable[a + 1]
     ELSE IF a <= 180 THEN SinTable[180 - a + 1]
     ELSE IF a <= 270 THEN -SinTable[a - 180 + 1]
     ELSE -SinTable[360 - a + 1]

Cos(deg) == Sin(deg + 90)

geoToXYZ(lon, lat, r) ==
  LET latR == lat
      lonR == -lon
  IN <<r * ((Cos(latR) * Cos(lonR)) \div 1000), r * Sin(latR),
       r * ((Cos(latR) * Sin(lonR)) \div 1000)>>

\* EARTH_R + alt * ORBIT_SCALE * 0.8 with ORBIT_SCALE = EARTH_R / 6371 (lines 730,
\* 758 and 929), in thousandths of a pixel.
AltPx(alt) == 1000 * EARTH_R + (alt * EARTH_R * 800) \div 6371

(***************************************************************************)
(* drawTrajectory, lines 911-973.  The result is null when nothing is      *)
(* drawn, otherwise the number of points and the lines the path strokes.   *)
(* path holds the rotated points of the samples:    *)
(* the point of sample step is path[(step % Len(path)) + 1].               *)
(***************************************************************************)
\* Math.min(300, Math.max(50, Math.floor(minutes * 1.1)))
TrajectorySteps(minutes) == Min(300, Max(50, (minutes * 11) \div 10))

\* Lines 923-951: the visible flags of the points pushed, in order of step.
TrajectoryPoints(d, sim, minutes, steps, path) ==
  LET sample(step) ==
        LET seconds == step * minutes * 60
            \* floor(seconds * 1000 / steps), computed in two parts
            futureDate == sim + (seconds \div steps) * 1000
                              + ((seconds % steps) * 1000) \div steps
            pos == getSatLatLonAlt(d.track, futureDate)
            pt == path[(step % Len(path)) + 1]
        IN [pushed |-> pos # None /\ pos[1].res # "nan",
            visible |-> TrajectoryVisible(pt[1], pt[2], pt[3])]
      pushed(p) == p.pushed
      allPoints == SelectSeq([k \in 1..(steps + 1) |-> sample(k - 1)], pushed)
  IN [k \in 1..Len(allPoints) |-> allPoints[k].visible]

\* Lines 926-930: the point of the first sample (timeOffset 0) of each trajectory
\* drawn, null when the sample is skipped or nothing is drawn.
PlacedSamples(handles, allDocs, sim) ==
  [i \in 1..Len(handles) |->
     LET d == allDocs[handles[i]]
         pos == getSatLatLonAlt(d.track, sim)
     IN IF ~isTrajectoryValid(d, sim) \/ pos = None \/ pos[1].res = "nan" THEN None
        ELSE LET lon == LonAt(d, sim)
                 altPx == AltPx(pos[1].alt)
             IN Some([lon |-> lon, lat |-> 0, r |-> altPx,
                      xyz |-> geoToXYZ(-lon, 0, altPx)])]

\* Lines 958-970: lineTo reaches point k + 1 from point k when both are visible; a
\* hidden point makes the next visible one a moveTo.
Strokes(flags) == {k \in 1..(Len(flags) - 1) : flags[k] /\ flags[k + 1]}

drawTrajectory(d, sim, minutes, path) ==
  IF ~isTrajectoryValid(d, sim) THEN None
  ELSE LET flags == TrajectoryPoints(d, sim, minutes, TrajectorySteps(minutes), path)
       IN Some([points |-> Len(flags), lines |-> Strokes(flags)])

\* Lines 975-985: the handles drawTrajectory is called for, in order.
QueriedHandles(showAll, selected, positions) ==
  IF showAll THEN [k \in 1..Len(positions) |-> positions[k].satrec]
  ELSE IF selected # None THEN <<selected[1].satrec>>
  ELSE <<>>

RECURSIVE DrawnTrajectories(_, _, _, _, _, _, _)
DrawnTrajectories(handles, i, allDocs, sim, minutes, path, drawn) ==
  IF i > Len(handles) THEN drawn
  ELSE LET h == handles[i]
           drawing == drawTrajectory(allDocs[h], sim, minutes, path)
       IN DrawnTrajectories(handles, i + 1, allDocs, sim, minutes, path,
            IF drawing = None THEN drawn
            ELSE Append(drawn, [satrec |-> h, points |-> drawing[1].points,
                                lines |-> drawing[1].lines]))

\* The time and the result of the last run of isTrajectoryValid for each handle.
NoValidity == [h \in {} |-> 0]

ValidityAfter(v, handles, allDocs, sim, now) ==
  LET queried == {handles[i] : i \in 1..Len(handles)}
  IN [h \in DOMAIN v \cup queried |->
        IF h \in queried THEN [at |-> now, valid |-> isTrajectoryValid(allDocs[h], sim)]
        ELSE v[h]]

(***************************************************************************)
(* The border rings, lines 622-724.  A projected point is [x, y, z]: its   *)
(* screen position in whole pixels and its depth.  project is affine in    *)
(* the 3D point, so the projection of the point getEdgeIntersection        *)
(* interpolates at t = p1.z / (p1.z - p2.z) is p1 + t * (p2 - p1); a path  *)
(* point is kept as the fractions xn / den, yn / den (den = 0: the         *)
(* division by a zero depth delta).                                        *)
(***************************************************************************)
getEdgeIntersection(p1, p2) ==
  [xn |-> p1.x * (p1.z - p2.z) + p1.z * (p2.x - p1.x),
   yn |-> p1.y * (p1.z - p2.z) + p1.z * (p2.y - p1.y),
   den |-> p1.z - p2.z, isLimb |-> TRUE]

CurrentVisibleInclusive(p) == p.z >= 0

\* Line 631.
CurrentVisible(p) == p.z > 0

NextVisibleInclusive(next) == next.z >= 0

\* Line 632.
NextVisible(next) == next.z > 0

\* The same loop on an open walk: the last point has no next point.
RECURSIVE ClippedPathOpen(_, _)
ClippedPathOpen(projected, i) ==
  IF i > Len(projected) THEN <<>>
  ELSE LET p == projected[i]
           next == projected[Min(i + 1, Len(projected))]
           rest == ClippedPathOpen(projected, i + 1)
       IN IF CurrentVisible(p)
          THEN <<[xn |-> p.x, yn |-> p.y, den |-> 1, isLimb |-> FALSE]>>
               \o (IF ~NextVisible(next) THEN <<getEdgeIntersection(next, p)>> ELSE <<>>)
               \o rest
          ELSE (IF NextVisible(next) THEN <<getEdgeIntersection(p, next)>> ELSE <<>>)
               \o rest

\* The loop of lines 625-646 from index i on.
RECURSIVE ClippedPath(_, _)
ClippedPath(projected, i) ==
  IF i > Len(projected) THEN <<>>
  ELSE LET p == projected[i]
           next == projected[(i % Len(projected)) + 1]
           rest == ClippedPath(projected, i + 1)
       IN IF CurrentVisible(p)
          THEN <<[xn |-> p.x, yn |-> p.y, den |-> 1, isLimb |-> FALSE]>>
               \o (IF ~NextVisible(next) THEN <<getEdgeIntersection(next, p)>> ELSE <<>>)
               \o rest
          ELSE (IF NextVisible(next) THEN <<getEdgeIntersection(p, next)>> ELSE <<>>)
               \o rest

\* Line 648.
FillsPath(path) == Len(path) > 2

\* Lines 652-677: the segment drawn from each path point to the next.
FillSegments(path) ==
  [j \in 1..Len(path) |->
     IF path[j].isLimb /\ path[(j % Len(path)) + 1].isLimb THEN "arc" ELSE "line"]

\* Lines 695-709.  Rotations keep distances, so the 3D distance of two ring points is
\* that of their view-space points, whose x and y are the screen offsets over zoom.
StrokesEdge(p, next, z) ==
  LET d2 == (next.x - p.x) * (next.x - p.x) + (next.y - p.y) * (next.y - p.y)
      dz2 == (next.z - p.z) * (next.z - p.z)
  IN /\ p.z > 0 /\ next.z > 0
     /\ d2 * 1000 * 1000 < 15 * 15 * z * z
     /\ d2 * 1000 * 1000 + dz2 * z * z < 20 * 20 * z * z

\* Lines 688-721: the edges (by the index of their first point) a lineTo is emitted for.
BorderStrokes(projected, z) ==
  SelectSeq([i \in 1..Len(projected) |-> i],
            LAMBDA i : StrokesEdge(projected[i], projected[(i % Len(projected)) + 1], z))

RingPath(projected, z) ==
  LET path == ClippedPath(projected, 1)
  IN [clipped |-> path,
      fill |-> IF FillsPath(path) THEN FillSegments(path) ELSE <<>>,
      filled |-> FillsPath(path),
      strokes |-> BorderStrokes(projected, z)]

\* The frames seen so far do not form the start of a pause, 100x, pause sequence.
NoHist ==
  [phase |-> 0, first |-> 0, lo |-> 0, hi |-> 0, hiRun |-> 0, lastRun |-> 0, idle |-> 0]

(***************************************************************************)
(* loadWorldMap, lines 109-128.  It awaits nothing, so it has run to its   *)
(* end when the mount effect (line 284) returns: the rings are in          *)
(* countryPolygonsRef, or topojson.feature threw and the catch left it     *)
(* empty.                                                                  *)
(***************************************************************************)
WorldRings == <<"ring">>

\* The [lon, lat] pairs of the rings, in whole degrees.
RingCoords(ring) ==
  <<(<<0, 0>>), (<<20, 0>>), (<<90, 0>>), (<<180, 0>>), (<<-160, 0>>), (<<20, 30>>)>>

\* Lines 544-549: the vertices of the rings as geoToXYZ places them, at the radius
\* EARTH_R * 0.998 in thousandths of a pixel.
PlacedRings(rings) ==
  [r \in 1..Len(rings) |->
     [i \in 1..Len(RingCoords(rings[r])) |->
        LET c == RingCoords(rings[r])[i]
            borderR == EARTH_R * 998
        IN [lon |-> c[1], lat |-> c[2], r |-> borderR,
            xyz |-> geoToXYZ(c[1], c[2], borderR)]]]

MapOutcomes == {"ready", "failed"}

loadWorldMap(outcome) == IF outcome = "ready" THEN WorldRings ELSE <<>>

AllListeners ==
  {"mousedown", "contextmenu", "canvas mousemove", "mousemove", "mouseup", "click",
   "touchstart", "touchmove", "touchend", "wheel"}

(***************************************************************************)
(* Init: the component after its first render and effects, loadWorldMap    *)
(* done with the given outcome and the fetch of loadStarlink under way.    *)
(***************************************************************************)
InitView(outcome) ==
  /\ mounted = TRUE
  /\ listeners = {}
  /\ worldMap = outcome
  /\ countryPolygons = loadWorldMap(outcome)
  /\ mouseDownPos = <<0, 0>>
  /\ lastMouse = <<0, 0>>
  /\ dragRot = <<-250, 440>>
  /\ panOffset = <<0, 0>>
  /\ zoom = 1000
  /\ mouseCanvas = <<-1000, -1000>>
  /\ clicks = [due |-> FALSE]
  /\ hoveredSat = None
  /\ selectedSat = None
  /\ showAllTrajectories = FALSE
  /\ showAllTrajectoriesRef = FALSE
  /\ trajectoryMinutes = 270
  /\ trajectoryMinutesRef = 270
  /\ rendered = <<>>
  /\ trajectories = <<>>
  /\ validity = NoValidity
  /\ ringPaths = <<>>
  /\ viewed = None
  /\ placed = [rings |-> <<>>, samples |-> <<>>]

InitWith(outcome) ==
  /\ InitView(outcome)
  /\ clock = 0
  /\ load = "fetching"
  /\ docs = <<>>
  /\ satellites = <<>>
  /\ stats = [total |-> 0, tle |-> 0]
  /\ inclinationGroups = <<>>
  /\ inclinationGroupsRef = <<>>
  /\ loading = TRUE
  /\ loadTimer = FALSE
  /\ rafPending = FALSE
  /\ speed = 1
  /\ speedRef = 1
  /\ timeOffset = 0
  /\ pausedTime = None
  /\ lastFrameTime = 0
  /\ frameCount = 0
  /\ lastSatUpdate = 0
  /\ cachedSatPositions = <<>>
  /\ isDragging = FALSE
  /\ isRightDragging = FALSE
  /\ simDate = None
  /\ frame = [speed |-> 1, dt |-> 0, wallUpdate |-> 0]
  /\ toggled = FALSE
  /\ hist = NoHist

Init == InitWith("ready")

\* The same with either outcome of loadWorldMap.
InitLoad == \E outcome \in MapOutcomes : InitWith(outcome)

loadVars == <<load, docs, satellites, stats, inclinationGroups, loadTimer>>
clockVars == <<speed, speedRef, timeOffset, pausedTime, simDate, frame, hist>>
inputVars == <<isDragging, isRightDragging, toggled>>
frameVars == <<lastFrameTime, frameCount, lastSatUpdate>>
mountVars == <<mounted, listeners, worldMap, countryPolygons>>
pointerVars == <<mouseDownPos, lastMouse, dragRot, panOffset, zoom, mouseCanvas, clicks>>
pickVars == <<hoveredSat, selectedSat>>
trajVars == <<showAllTrajectories, showAllTrajectoriesRef, trajectoryMinutes,
              trajectoryMinutesRef>>
outVars == <<rendered, trajectories, validity, ringPaths, viewed, placed>>
viewVars == <<mountVars, pointerVars, pickVars, trajVars, outVars>>

\* loadStarlink with a response: lines 135-250.
LoadStarlink(allDocs) ==
  /\ load = "fetching"
  /\ LET r == IngestLoop(allDocs, 1, [sats |-> <<>>, buckets |-> EmptyBuckets, tle |-> 0],
                         clock)
     IN /\ satellites' = r.sats
        /\ stats' = [total |-> Len(allDocs), tle |-> r.tle]
        /\ inclinationGroups' = GroupsOf(r.buckets)
  /\ docs' = allDocs
  /\ load' = "ingested"
  /\ loadTimer' = TRUE
  /\ UNCHANGED <<clock, inclinationGroupsRef, loading, rafPending, clockVars, frameVars,
                 cachedSatPositions, inputVars,
                 viewVars>>

\* loadStarlink when the fetch throws: lines 251-256.
LoadFails ==
  /\ load = "fetching"
  /\ load' = "retry"
  /\ UNCHANGED <<clock, docs, satellites, stats, inclinationGroups, loadTimer,
                 inclinationGroupsRef, loading, rafPending, clockVars, frameVars,
                 cachedSatPositions, inputVars,
                 viewVars>>

\* setTimeout(loadStarlink, 3000) fires.
RetryLoad ==
  /\ load = "retry"
  /\ load' = "fetching"
  /\ UNCHANGED <<clock, docs, satellites, stats, inclinationGroups, loadTimer,
                 inclinationGroupsRef, loading, rafPending, clockVars, frameVars,
                 cachedSatPositions, inputVars,
                 viewVars>>

\* The effect of lines 270-272, run after a render that changed inclinationGroups.
SyncInclinationGroups ==
  /\ mounted
  /\ inclinationGroupsRef # inclinationGroups
  /\ inclinationGroupsRef' = inclinationGroups
  /\ UNCHANGED <<clock, loadVars, loading, rafPending, clockVars, frameVars,
                 cachedSatPositions, inputVars,
                 viewVars>>

LoadingDelayMs == 800

\* setTimeout(() => setLoading(false), 800) fires.  The render it causes runs
\* after the effects of the earlier renders.
LoadingDone ==
  /\ mounted
  /\ loadTimer
  /\ inclinationGroupsRef = inclinationGroups
  /\ loadTimer' = FALSE
  /\ loading' = FALSE
  /\ clock' = clock + LoadingDelayMs
  /\ UNCHANGED <<load, docs, satellites, stats, inclinationGroups, inclinationGroupsRef,
                 rafPending, clockVars, frameVars, cachedSatPositions, inputVars,
                 viewVars>>

\* The effect of lines 319-1049 once loading is false: the listeners of lines
\* 417-426 are attached and the first frame is requested (lines 1034-1035).
StartLoop ==
  /\ mounted
  /\ ~loading
  /\ ~rafPending
  /\ lastFrameTime' = clock
  /\ rafPending' = TRUE
  /\ listeners' = AllListeners
  /\ UNCHANGED <<clock, loadVars, inclinationGroupsRef, loading, clockVars, frameCount,
                 lastSatUpdate, cachedSatPositions, inputVars, mounted, worldMap,
                 countryPolygons, pointerVars, pickVars, trajVars, outVars>>

UnmountKeepsWheel ==
  /\ mounted
  /\ mounted' = FALSE
  /\ listeners' = listeners \cap {"wheel"}
  /\ UNCHANGED <<clock, loadVars, inclinationGroupsRef, loading, rafPending, clockVars,
                 frameVars, cachedSatPositions, inputVars, worldMap, countryPolygons,
                 pointerVars, pickVars, trajVars, outVars>>

\* The component unmounts: the cleanup of lines 1037-1048 runs if the render effect
\* had attached the listeners.  Nothing cancels the frame request.
Unmount ==
  /\ mounted
  /\ mounted' = FALSE
  /\ listeners' = {}
  /\ UNCHANGED <<clock, loadVars, inclinationGroupsRef, loading, rafPending, clockVars,
                 frameVars, cachedSatPositions, inputVars, worldMap, countryPolygons,
                 pointerVars, pickVars, trajVars, outVars>>

(***************************************************************************)
(* The controls: lines 1164-1174 (speed buttons), 1122 and 1051-1057 (group *)
(* rows), and the effects that copy the state to the refs the frame reads. *)
(* A handler's setState causes a render; a render runs after the effects   *)
(* of the renders before it, so a handler finds no effect pending.         *)
(***************************************************************************)
Speeds == {0, 1, 20, 100, 1000}

SetSpeed(v) ==
  /\ mounted
  /\ load = "ingested"
  /\ speedRef = speed
  /\ v # speed
  /\ speed' = v
  /\ UNCHANGED <<clock, loadVars, inclinationGroupsRef, loading, rafPending, speedRef,
                 timeOffset, pausedTime, simDate, frame, hist, frameVars,
                 cachedSatPositions, inputVars,
                 viewVars>>

\* The effect of lines 260-262.
SyncSpeed ==
  /\ mounted
  /\ speedRef # speed
  /\ speedRef' = speed
  /\ UNCHANGED <<clock, loadVars, inclinationGroupsRef, loading, rafPending, speed,
                 timeOffset, pausedTime, simDate, frame, hist, frameVars,
                 cachedSatPositions, inputVars,
                 viewVars>>

ToggledGroups(groups, minInc) ==
  [k \in 1..Len(groups) |->
     IF groups[k].minInc = minInc
     THEN [groups[k] EXCEPT !.enabled = ~groups[k].enabled]
     ELSE groups[k]]

toggleInclinationGroup(minInc) ==
  /\ mounted
  /\ inclinationGroupsRef = inclinationGroups
  /\ \E k \in 1..Len(inclinationGroups) : inclinationGroups[k].minInc = minInc
  /\ inclinationGroups' = ToggledGroups(inclinationGroups, minInc)
  /\ cachedSatPositions' = <<>>
  /\ toggled' = TRUE
  /\ UNCHANGED <<clock, load, docs, satellites, stats, loadTimer, inclinationGroupsRef,
                 loading, rafPending, clockVars, frameVars, isDragging, isRightDragging,
                 viewVars>>

\* The checkbox of lines 1189-1203 and the effects of lines 275-281.
MinutesKept(checked, minutes) == minutes

\* Lines 1195-1200: the duration after the checkbox changes to checked.
ClampedMinutes(checked, minutes) ==
  IF checked /\ minutes > 45 THEN 45
  ELSE IF ~checked /\ minutes < 45 THEN 270
  ELSE minutes

SetShowAllTrajectories(checked) ==
  /\ mounted
  /\ load = "ingested"
  /\ showAllTrajectoriesRef = showAllTrajectories
  /\ trajectoryMinutesRef = trajectoryMinutes
  /\ checked # showAllTrajectories
  /\ showAllTrajectories' = checked
  /\ trajectoryMinutes' = ClampedMinutes(checked, trajectoryMinutes)
  /\ UNCHANGED <<clock, loadVars, inclinationGroupsRef, loading, rafPending, clockVars,
                 frameVars, cachedSatPositions, inputVars, mountVars, pointerVars,
                 pickVars, showAllTrajectoriesRef, trajectoryMinutesRef, outVars>>

\* The duration slider's onChange, lines 1217-1224: the range input reports a value
\* from its min to its max by its step.
SetTrajectoryMinutes(value) ==
  /\ mounted
  /\ load = "ingested"
  /\ showAllTrajectoriesRef = showAllTrajectories
  /\ trajectoryMinutesRef = trajectoryMinutes
  /\ value \in (IF showAllTrajectories THEN 1..45 ELSE {45 * k : k \in 1..10})
  /\ value # trajectoryMinutes
  /\ trajectoryMinutes' = value
  /\ UNCHANGED <<clock, loadVars, inclinationGroupsRef, loading, rafPending, clockVars,
                 frameVars, cachedSatPositions, inputVars, mountVars, pointerVars,
                 pickVars, showAllTrajectories, showAllTrajectoriesRef,
                 trajectoryMinutesRef, outVars>>

SyncTrajectoryRefs ==
  /\ mounted
  /\ showAllTrajectoriesRef # showAllTrajectories \/ trajectoryMinutesRef # trajectoryMinutes
  /\ showAllTrajectoriesRef' = showAllTrajectories
  /\ trajectoryMinutesRef' = trajectoryMinutes
  /\ UNCHANGED <<clock, loadVars, inclinationGroupsRef, loading, rafPending, clockVars,
                 frameVars, cachedSatPositions, inputVars, mountVars, pointerVars,
                 pickVars, showAllTrajectories, trajectoryMinutes, outVars>>

(***************************************************************************)
(* The input handlers of the render effect, lines 328-415, each run only   *)
(* while its listener is attached.  x, y are clientX, clientY.             *)
(* handleContextMenu only prevents the default action.                     *)
(***************************************************************************)
handleMouseDown(button, x, y) ==
  /\ "mousedown" \in listeners
  /\ ~isDragging /\ ~isRightDragging
  /\ IF button = 2
     THEN isRightDragging' = TRUE /\ UNCHANGED isDragging
     ELSE isDragging' = TRUE /\ UNCHANGED isRightDragging
  /\ lastMouse' = <<x, y>>
  /\ mouseDownPos' = <<x, y>>
  /\ UNCHANGED <<clock, loadVars, inclinationGroupsRef, loading, rafPending, clockVars,
                 frameVars, cachedSatPositions, toggled, mountVars, dragRot, panOffset,
                 zoom, mouseCanvas, clicks, pickVars, trajVars, outVars>>

handleCanvasMouseMove(x, y) ==
  /\ "canvas mousemove" \in listeners
  /\ mouseCanvas' = <<x, y>>
  /\ UNCHANGED <<clock, loadVars, inclinationGroupsRef, loading, rafPending, clockVars,
                 frameVars, cachedSatPositions, inputVars, mountVars, mouseDownPos,
                 lastMouse, dragRot, panOffset, zoom, clicks, pickVars, trajVars,
                 outVars>>

\* Lines 356-358 and 401-403: 0.008 rad per pixel, the tilt kept within -1.4..1.4.
Rotated(rot, from, x, y) ==
  <<rot[1] + (x - from[1]) * 8, Max(-1400, Min(1400, rot[2] + (y - from[2]) * 8))>>

handleMouseMove(x, y) ==
  /\ "mousemove" \in listeners
  /\ IF isDragging
     THEN /\ dragRot' = Rotated(dragRot, lastMouse, x, y)
          /\ lastMouse' = <<x, y>>
          /\ UNCHANGED panOffset
     ELSE IF isRightDragging
     THEN /\ panOffset' = <<panOffset[1] + x - lastMouse[1], panOffset[2] + y - lastMouse[2]>>
          /\ lastMouse' = <<x, y>>
          /\ UNCHANGED dragRot
     ELSE UNCHANGED <<dragRot, panOffset, lastMouse>>
  /\ UNCHANGED <<clock, loadVars, inclinationGroupsRef, loading, rafPending, clockVars,
                 frameVars, cachedSatPositions, inputVars, mountVars, mouseDownPos, zoom,
                 mouseCanvas, clicks, pickVars, trajVars, outVars>>

\* Math.sqrt(dx * dx + dy * dy) > 4
WasDrag(down, x, y) ==
  (x - down[1]) * (x - down[1]) + (y - down[2]) * (y - down[2]) > 4 * 4

\* satellitesRef.current.find(s => s.name === name): the first match or null.
FindByName(sats, name) ==
  LET matches == {k \in 1..Len(sats) : sats[k].name = name}
  IN IF matches = {} THEN None
     ELSE Some(sats[CHOOSE k \in matches : \A j \in matches : k <= j])

SelectedClearedOffTarget(selected, hovered, sats, wasDrag) ==
  IF hovered # None
  THEN LET sat == FindByName(sats, hovered[1].name)
       IN IF sat # None
          THEN Some([name |-> sat[1].name, satrec |-> sat[1].satrec, color |-> sat[1].color])
          ELSE selected
  ELSE None

SelectedAfterClick(selected, hovered, sats, wasDrag) ==
  IF hovered # None
  THEN LET sat == FindByName(sats, hovered[1].name)
       IN IF sat # None
          THEN Some([name |-> sat[1].name, satrec |-> sat[1].satrec, color |-> sat[1].color])
          ELSE selected
  ELSE IF ~wasDrag THEN None
  ELSE selected

handleClick(x, y) ==
  /\ "click" \in listeners
  /\ selectedSat' = SelectedAfterClick(selectedSat, hoveredSat, satellites,
                                       WasDrag(mouseDownPos, x, y))
  /\ clicks' = [due |-> FALSE]
  /\ UNCHANGED <<clock, loadVars, inclinationGroupsRef, loading, rafPending, clockVars,
                 frameVars, cachedSatPositions, inputVars, mountVars, mouseDownPos,
                 lastMouse, dragRot, panOffset, zoom, mouseCanvas, hoveredSat, trajVars,
                 outVars>>

\* The release of the left button is followed by a click event.
handleMouseUp ==
  /\ "mouseup" \in listeners
  /\ isDragging \/ isRightDragging
  /\ isDragging' = FALSE
  /\ isRightDragging' = FALSE
  /\ clicks' = [clicks EXCEPT !.due = isDragging]
  /\ UNCHANGED <<clock, loadVars, inclinationGroupsRef, loading, rafPending, clockVars,
                 frameVars, cachedSatPositions, toggled, mountVars, mouseDownPos,
                 lastMouse, dragRot, panOffset, zoom, mouseCanvas, pickVars, trajVars,
                 outVars>>

\* touches is e.touches.length; x, y are those of the first touch.
handleTouchStart(touches, x, y) ==
  /\ "touchstart" \in listeners
  /\ IF touches = 1
     THEN isDragging' = TRUE /\ lastMouse' = <<x, y>>
     ELSE UNCHANGED <<isDragging, lastMouse>>
  /\ UNCHANGED <<clock, loadVars, inclinationGroupsRef, loading, rafPending, clockVars,
                 frameVars, cachedSatPositions, isRightDragging, toggled, mountVars,
                 mouseDownPos, dragRot, panOffset, zoom, mouseCanvas, clicks, pickVars,
                 trajVars, outVars>>

handleTouchMove(touches, x, y) ==
  /\ "touchmove" \in listeners
  /\ IF ~isDragging \/ touches # 1
     THEN UNCHANGED <<dragRot, lastMouse>>
     ELSE dragRot' = Rotated(dragRot, lastMouse, x, y) /\ lastMouse' = <<x, y>>
  /\ UNCHANGED <<clock, loadVars, inclinationGroupsRef, loading, rafPending, clockVars,
                 frameVars, cachedSatPositions, inputVars, mountVars, mouseDownPos,
                 panOffset, zoom, mouseCanvas, clicks, pickVars, trajVars, outVars>>

handleTouchEnd ==
  /\ "touchend" \in listeners
  /\ isDragging' = FALSE
  /\ UNCHANGED <<clock, loadVars, inclinationGroupsRef, loading, rafPending, clockVars,
                 frameVars, cachedSatPositions, isRightDragging, toggled, viewVars>>

\* Lines 413-414: the factor is 0.92 or 1.08, the zoom is kept within 0.3..20; the
\* product is cut to whole thousandths.
handleWheel(deltaY) ==
  /\ "wheel" \in listeners
  /\ zoom' = Max(300, Min(20000, (zoom * (IF deltaY > 0 THEN 92 ELSE 108)) \div 100))
  /\ UNCHANGED <<clock, loadVars, inclinationGroupsRef, loading, rafPending, clockVars,
                 frameVars, cachedSatPositions, inputVars, mountVars, mouseDownPos,
                 lastMouse, dragRot, panOffset, mouseCanvas, clicks, pickVars, trajVars,
                 outVars>>

(***************************************************************************)
(* draw, lines 468-489: the clock update.  w1 and w2 are what Date.now()   *)
(* returns at lines 479 and 482.                                           *)
(***************************************************************************)
ClockAnchorsWallTime(currentSpeed, paused, offset, dt, w1, w2) ==
  IF currentSpeed = 0
  THEN LET p == IF paused = None THEN w1 ELSE paused[1]
       IN [pausedTime |-> Some(p), timeOffset |-> p - w2]
  ELSE [pausedTime |-> None,
        timeOffset |-> IF currentSpeed > 0 THEN offset + dt * (currentSpeed - 1)
                       ELSE offset]

ClockAddsWholeSpeed(currentSpeed, paused, offset, dt, w1, w2) ==
  IF currentSpeed = 0
  THEN LET p == IF paused = None THEN w1 + offset ELSE paused[1]
       IN [pausedTime |-> Some(p), timeOffset |-> p - w2]
  ELSE [pausedTime |-> None,
        timeOffset |-> IF currentSpeed > 0 THEN offset + dt * currentSpeed ELSE offset]

ClockUpdate(currentSpeed, paused, offset, dt, w1, w2) ==
  IF currentSpeed = 0
  THEN LET p == IF paused = None THEN w1 + offset ELSE paused[1]
       IN [pausedTime |-> Some(p), timeOffset |-> p - w2]
  ELSE [pausedTime |-> None,
        timeOffset |-> IF currentSpeed > 0 THEN offset + dt * (currentSpeed - 1)
                       ELSE offset]

(***************************************************************************)
(* draw, lines 733-764: the position cache.                                *)
(***************************************************************************)
EnabledGroups(groups) ==
  {NumToString(groups[k].minInc) : k \in {j \in 1..Len(groups) : groups[j].enabled}}

UpdateIntervalSwapped(dragging) == IF dragging THEN 100 ELSE 200

UpdateInterval(dragging) == IF dragging THEN 200 ELSE 100

CacheDue(now, lastUpdate, dragging, cache) ==
  now - lastUpdate > UpdateInterval(dragging) \/ Len(cache) = 0

KeepsLoadBand(pos) ==
  /\ pos # None
  /\ pos[1].res # "nan"
  /\ ~(pos[1].alt < 200 \/ pos[1].alt > 1000)

\* pos is what getSatLatLonAlt returned: lines 752 and 755.
KeepsPosition(pos) ==
  /\ pos # None
  /\ pos[1].res # "nan"
  /\ ~(pos[1].alt < 200 \/ pos[1].alt > 800)

\* The for loop of lines 747-761 from index i on.
RECURSIVE SatPositions(_, _, _, _, _)
SatPositions(sats, i, enabledGroups, allDocs, date) ==
  IF i > Len(sats) THEN <<>>
  ELSE LET sat == sats[i]
           pos == getSatLatLonAlt(allDocs[sat.satrec].track, date)
           rest == SatPositions(sats, i + 1, enabledGroups, allDocs, date)
       IN IF sat.group \notin enabledGroups THEN rest
          ELSE IF ~KeepsPosition(pos) THEN rest
          ELSE LET lon == LonAt(allDocs[sat.satrec], date)
                   altPx == AltPx(pos[1].alt)
               IN <<[satrec |-> sat.satrec, name |-> sat.name, color |-> sat.color,
                     alt |-> pos[1].alt, lon |-> lon, lat |-> 0, altPx |-> altPx,
                     xyz |-> geoToXYZ(-lon, 0, altPx)]>> \o rest

(***************************************************************************)
(* Bookkeeping for the speed sequence pause, 100x, pause as the frames see *)
(* it: phase 1 = first pause, 2 = running at 100x, 3 = second pause.       *)
(* first: the first pause's anchor; lo, hi: the least and greatest simDate *)
(* of the sequence's frames; hiRun: the greatest before the second pause;  *)
(* lastRun: the simDate of the last frame at 100x; idle: the real time     *)
(* from that frame's read of the clock to the start of the next frame.     *)
(***************************************************************************)
HistStep(h, currentSpeed, anchor, sim, gap) ==
  LET seen == [h EXCEPT !.lo = IF sim < h.lo THEN sim ELSE h.lo,
                        !.hi = IF sim > h.hi THEN sim ELSE h.hi]
      run == [seen EXCEPT !.hiRun = IF sim > h.hiRun THEN sim ELSE h.hiRun]
  IN CASE h.phase = 0 /\ currentSpeed = 0 ->
            [phase |-> 1, first |-> anchor[1], lo |-> sim, hi |-> sim, hiRun |-> sim,
             lastRun |-> 0, idle |-> 0]
       [] h.phase = 1 /\ currentSpeed = 0 -> run
       [] h.phase \in {1, 2} /\ currentSpeed = 100 ->
            [run EXCEPT !.phase = 2, !.lastRun = sim]
       [] h.phase = 2 /\ currentSpeed = 0 -> [seen EXCEPT !.phase = 3, !.idle = gap]
       [] h.phase = 3 /\ currentSpeed = 0 -> seen
       [] OTHER -> NoHist

(***************************************************************************)
(* draw: one frame.  gap: real time from the previous read of the clock to *)
(* this frame's start, whose timestamp is now (the argument of draw and    *)
(* Date.now() at line 479); e2: real time between the reads of lines 479   *)
(* and 482; e3: real time from the clock update to the read of line 729;   *)
(* view: the view-space points of the handles (view.sats) and the          *)
(* projected rings (view.rings) under the frame's rotation.  The frame     *)
(* requests the next one (line 1031) whether or not the component is still *)
(* mounted.                                                                *)
(***************************************************************************)
draw(gap, e2, e3, view) ==
  /\ rafPending
  /\ e2 = 0 \/ (speedRef = 0 /\ pausedTime = None)
  /\ Len(view.sats) = Len(docs)
  /\ Len(view.rings) = Len(countryPolygons)
  /\ Len(view.path) > 0
  /\ LET now == clock + gap
         dt == now - lastFrameTime
         w2 == now + e2
         w3 == w2 + e3
         c == ClockUpdate(speedRef, pausedTime, timeOffset, dt, now, w2)
         sim == w3 + c.timeOffset
         due == CacheDue(now, lastSatUpdate, isDragging, cachedSatPositions)
         satPositions ==
           IF due
           THEN SatPositions(satellites, 1, EnabledGroups(inclinationGroupsRef), docs, sim)
           ELSE cachedSatPositions
         projectedSats == ProjectedSats(satPositions, view.sats, Center(panOffset, mounted),
                                        zoom)
         handles == QueriedHandles(showAllTrajectoriesRef, selectedSat, satPositions)
     IN /\ lastFrameTime' = now
        /\ pausedTime' = c.pausedTime
        /\ timeOffset' = c.timeOffset
        /\ simDate' = Some(sim)
        /\ clock' = w3
        /\ lastSatUpdate' = IF due THEN now ELSE lastSatUpdate
        /\ cachedSatPositions' = satPositions
        /\ frame' = [speed |-> speedRef, dt |-> dt, wallUpdate |-> w2]
        /\ hist' = HistStep(hist, speedRef, c.pausedTime, sim, gap)
        /\ ringPaths' = [r \in 1..Len(countryPolygons) |-> RingPath(view.rings[r], zoom)]
        /\ hoveredSat' = HoveredOf(ClosestSat(projectedSats, 1, mouseCanvas, None))
        /\ rendered' = RenderedSats(projectedSats, 1)
        /\ trajectories' = DrawnTrajectories(handles, 1, docs, sim, trajectoryMinutesRef,
                                             view.path, <<>>)
        /\ validity' = ValidityAfter(validity, handles, docs, sim, now)
        /\ viewed' = Some(view)
        /\ placed' = [rings |-> PlacedRings(countryPolygons),
                      samples |-> PlacedSamples(handles, docs, sim)]
  /\ frameCount' = frameCount + 1
  /\ toggled' = FALSE
  /\ UNCHANGED <<loadVars, inclinationGroupsRef, loading, rafPending, speed, speedRef,
                 isDragging, isRightDragging, mountVars, pointerVars, selectedSat,
                 trajVars>>

\* A view in which every point is behind the globe and the ring faces the camera.
BehindPoint == <<0, 0, -260>>

FrontPoint == <<0, 0, 260>>

FrontRing == <<[x |-> 400, y |-> 295, z |-> 209], [x |-> 406, y |-> 303, z |-> 209],
               [x |-> 394, y |-> 303, z |-> 209]>>

RestView(handles, rings) ==
  [sats |-> [h \in 1..handles |-> BehindPoint], rings |-> [r \in 1..rings |-> FrontRing],
   path |-> <<BehindPoint>>]

FrontView(handles, rings) ==
  [sats |-> [h \in 1..handles |-> FrontPoint], rings |-> [r \in 1..rings |-> FrontRing],
   path |-> <<FrontPoint>>]

\* The record sets and the bounds of the three specifications.
ScenarioDocs ==
  << GoodDoc(Some(520), Some("S52"), <<Pos(780), Pos(790), Pos(810), PosNone>>),
     GoodDoc(Some(710), Some("S71"), <<Pos(550), Pos(550), Pos(550), PosNaN>>),
     GoodDoc(Some(980), Some("S98"), <<Pos(800), Pos(801), Pos(760), Pos(199)>>),
     [Steady(530, "S53") EXCEPT !.decayed = 1],
     GoodDoc(Some(534), Some("S53"), <<Pos(540), Pos(540), Pos(540), Pos(540)>>) >>

ExampleDocs == <<Steady(520, "E52"), Steady(710, "E71"), Steady(980, "E98")>>

MaxClockFrames == 4
MaxCacheFrames == 5
MaxIngestFrames == 1

FrameGaps == {16}
Ticks == {0, 1}
CacheGaps == {50, SampleStepMs}

NextIngest ==
  \/ /\ load = "fetching"
     /\ \E allDocs \in IngestDocLists \cup {ScenarioDocs, ExampleDocs} : LoadStarlink(allDocs)
  \/ LoadFails
  \/ RetryLoad
  \/ SyncInclinationGroups
  \/ LoadingDone
  \/ StartLoop
  \/ \E k \in 1..Len(inclinationGroups) : toggleInclinationGroup(inclinationGroups[k].minInc)
  \/ \E gap \in FrameGaps : frameCount < MaxIngestFrames
       /\ draw(gap, 0, 0, RestView(Len(docs), Len(countryPolygons)))

SpecIngest == Init /\ [][NextIngest]_vars

NextClock ==
  \/ LoadStarlink(ScenarioDocs)
  \/ SyncInclinationGroups
  \/ LoadingDone
  \/ StartLoop
  \/ \E v \in Speeds : SetSpeed(v)
  \/ SyncSpeed
  \/ \E gap \in FrameGaps, e2 \in Ticks, e3 \in Ticks :
       frameCount < MaxClockFrames
       /\ draw(gap, e2, e3, RestView(Len(docs), Len(countryPolygons)))

SpecClock == Init /\ [][NextClock]_vars

NextCache ==
  \/ LoadStarlink(ScenarioDocs)
  \/ SyncInclinationGroups
  \/ LoadingDone
  \/ StartLoop
  \/ \E k \in 1..Len(inclinationGroups) : toggleInclinationGroup(inclinationGroups[k].minInc)
  \/ \E button \in {0, 2} : handleMouseDown(button, 400, 300)
  \/ handleMouseUp
  \/ \E gap \in CacheGaps : frameCount < MaxCacheFrames
       /\ draw(gap, 0, 0, RestView(Len(docs), Len(countryPolygons)))

SpecCache == Init /\ [][NextCache]_vars

(***************************************************************************)
(* SpecPick: hovering, clicking and dragging over two satellites.  The     *)
(* canvas fills the window, so clientX, clientY are canvas coordinates;    *)
(* the pointer is where the canvas last saw it move, a press and a click   *)
(* happen there, and the click follows the release of the left button      *)
(* before anything else.                                                   *)
(***************************************************************************)
PickDocs == <<Steady(520, "A"), Steady(520, "B")>>

PickSpots == {<<400, 300>>, <<420, 300>>}

NearPoint == <<20, 0, 259>>

\* The first satellite under the first spot and the second under the second one; the
\* first behind the globe and the second under the first spot; both behind the globe.
PickPoints == {<<FrontPoint, NearPoint>>, <<BehindPoint, FrontPoint>>,
               <<BehindPoint, BehindPoint>>}

PickViews(handles, rings) ==
  {[sats |-> sats, rings |-> [r \in 1..rings |-> FrontRing], path |-> sats] :
     sats \in {pts \in PickPoints : Len(pts) = handles}}

PickRots == {<<-250, 440>>, <<-90, 440>>}

MaxPickFrames == 2

\* A behaviour of SpecPick changes one of the controls (speed, group row, show-all
\* checkbox, zoom), once.
ControlsAtRest ==
  /\ speed = 1
  /\ \A k \in 1..Len(inclinationGroups) : inclinationGroups[k].enabled
  /\ ~showAllTrajectories
  /\ zoom = 1000

PickGaps == {250}

\* No click is waiting to be delivered to the canvas.
Idle == ~clicks.due \/ "click" \notin listeners

NextPick ==
  \/ LoadStarlink(PickDocs)
  \/ SyncInclinationGroups
  \/ LoadingDone
  \/ StartLoop
  \/ ControlsAtRest /\ SetSpeed(0)
  \/ SyncSpeed
  \/ \E k \in 1..Len(inclinationGroups) :
       ControlsAtRest /\ toggleInclinationGroup(inclinationGroups[k].minInc)
  \/ ControlsAtRest /\ SetShowAllTrajectories(TRUE)
  \/ SyncTrajectoryRefs
  \/ \E s \in PickSpots : Idle /\ handleCanvasMouseMove(s[1], s[2])
  \/ Idle /\ mouseCanvas \in PickSpots
       /\ handleMouseDown(0, mouseCanvas[1], mouseCanvas[2])
  \/ Idle /\ lastMouse # mouseCanvas
       /\ handleMouseMove(mouseCanvas[1], mouseCanvas[2]) /\ dragRot' \in PickRots
  \/ handleMouseUp
  \/ clicks.due /\ handleClick(mouseCanvas[1], mouseCanvas[2])
  \/ ControlsAtRest /\ Idle /\ handleWheel(1)
  \/ \E gap \in PickGaps, view \in PickViews(Len(docs), Len(countryPolygons)) :
       frameCount < MaxPickFrames /\ Idle /\ draw(gap, 0, 0, view)

SpecPick == Init /\ [][NextPick]_vars

(***************************************************************************)
(* SpecTeardown: the pointer, touch and wheel events before and after the  *)
(* component unmounts.                                                     *)
(***************************************************************************)
TeardownPans == {<<0, 0>>, <<20, 0>>}
TeardownZooms == {1000, 920}

\* The first satellite is under the first spot and the second under the second one.
TeardownView(rings) ==
  [sats |-> <<FrontPoint, NearPoint>>, rings |-> [r \in 1..rings |-> FrontRing],
   path |-> <<FrontPoint, BehindPoint>>]

MaxTeardownFrames == 2

NextTeardown ==
  \/ LoadStarlink(PickDocs)
  \/ SyncInclinationGroups
  \/ LoadingDone
  \/ StartLoop
  \/ Unmount
  \/ \E s \in PickSpots : Idle /\ handleCanvasMouseMove(s[1], s[2])
  \/ \E button \in {0, 2} :
       Idle /\ mouseCanvas \in PickSpots
       /\ handleMouseDown(button, mouseCanvas[1], mouseCanvas[2])
  \/ Idle /\ lastMouse # mouseCanvas
       /\ handleMouseMove(mouseCanvas[1], mouseCanvas[2])
       /\ dragRot' \in PickRots /\ panOffset' \in TeardownPans
  \/ handleMouseUp
  \/ clicks.due /\ handleClick(mouseCanvas[1], mouseCanvas[2])
  \/ \E touches \in {1, 2}, s \in PickSpots :
       Idle /\ ~isDragging /\ ~isRightDragging /\ handleTouchStart(touches, s[1], s[2])
  \/ \E touches \in {1, 2}, s \in PickSpots :
       Idle /\ handleTouchMove(touches, s[1], s[2]) /\ dragRot' \in PickRots
  \/ Idle /\ isDragging /\ handleTouchEnd
  \/ Idle /\ handleWheel(1) /\ zoom' \in TeardownZooms
  \/ \E gap \in PickGaps :
       frameCount < MaxTeardownFrames /\ Idle
       /\ draw(gap, 0, 0, TeardownView(Len(countryPolygons)))

SpecTeardown == Init /\ [][NextTeardown]_vars

(***************************************************************************)
(* SpecLoad: the two loads of the mount effect, with either outcome of     *)
(* loadWorldMap and any number of failed fetches.                          *)
(***************************************************************************)
MaxLoadFrames == 4

NextLoad ==
  \/ /\ load = "fetching"
     /\ \E allDocs \in {PickDocs, ExampleDocs, ScenarioDocs} : LoadStarlink(allDocs)
  \/ LoadFails
  \/ RetryLoad
  \/ SyncInclinationGroups
  \/ LoadingDone
  \/ StartLoop
  \/ \E gap \in CacheGaps :
       frameCount < MaxLoadFrames
       /\ draw(gap, 0, 0, FrontView(Len(docs), Len(countryPolygons)))

SpecLoad == InitLoad /\ [][NextLoad]_vars

(***************************************************************************)
(* SpecClip: the border ring of a frame.  The ring has up to four points,  *)
(* the corners of a 6 px square, each in front of the limb plane, on it or *)
(* behind it.                                                              *)
(***************************************************************************)
MaxRingLen == 4

ClipDepths == {-1, 0, 1}

Corners == <<<<400, 295>>, <<406, 295>>, <<406, 301>>, <<400, 301>>, <<397, 298>>>>

ClipRings ==
  UNION {{[k \in 1..n |-> [x |-> Corners[k][1], y |-> Corners[k][2], z |-> depth[k]]] :
            depth \in [1..n -> ClipDepths]} : n \in 0..MaxRingLen}

ClipViews(handles, rings) ==
  {[sats |-> [h \in 1..handles |-> FrontPoint], rings |-> [r \in 1..rings |-> ring],
    path |-> <<FrontPoint>>] : ring \in ClipRings}

MaxClipFrames == 1

NextClip ==
  \/ LoadStarlink(PickDocs)
  \/ SyncInclinationGroups
  \/ LoadingDone
  \/ StartLoop
  \/ \E gap \in PickGaps, view \in ClipViews(Len(docs), Len(countryPolygons)) :
       frameCount < MaxClipFrames /\ draw(gap, 0, 0, view)

SpecClip == Init /\ [][NextClip]_vars

(***************************************************************************)
(* SpecOcclude: one satellite at a point before, on, inside or behind the  *)
(* globe, the pointer on the screen position of one of these points, and   *)
(* the samples of its trajectory at the same rotated point.                *)
(***************************************************************************)
OccludeDocs == <<Steady(520, "A")>>

OccludePoints ==
  { <<0, 0, 260>>, <<0, 0, 210>>, <<0, 0, 209>>, <<0, 0, -210>>, <<0, 0, -260>>,
    <<210, 0, 0>>, <<210, 0, -5>>, <<209, 0, 20>>, <<209, 0, 21>>, <<100, 0, -5>>,
    <<260, 0, -100>>, <<126, 168, 0>>, <<120, 160, 50>>, <<120, 160, 65>> }

OccludeSpots == {<<CanvasW \div 2 + pt[1], CanvasH \div 2 - pt[2]>> : pt \in OccludePoints}

OccludeViews(rings) ==
  {[sats |-> <<pt>>, rings |-> [r \in 1..rings |-> FrontRing], path |-> <<pt>>] :
     pt \in OccludePoints}

MaxOccludeFrames == 1

NextOcclude ==
  \/ LoadStarlink(OccludeDocs)
  \/ SyncInclinationGroups
  \/ LoadingDone
  \/ StartLoop
  \/ SetShowAllTrajectories(TRUE)
  \/ SyncTrajectoryRefs
  \/ \E s \in OccludeSpots : handleCanvasMouseMove(s[1], s[2])
  \/ \E gap \in PickGaps, view \in OccludeViews(Len(countryPolygons)) :
       frameCount < MaxOccludeFrames /\ draw(gap, 0, 0, view)

SpecOcclude == Init /\ [][NextOcclude]_vars

(***************************************************************************)
(* SpecHover: two cached satellites at points around the pointer, and a    *)
(* third, above the live altitude band and so never cached, right under    *)
(* it.                                                                     *)
(***************************************************************************)
\* The first two satellites at the centre, 9 px to either side, 10 px away along an
\* axis and along a diagonal, 5 px away inside the globe or at the centre behind it.
HoverViews(rings) ==
  LET points == { <<0, 0, 260>>, <<9, 0, 260>>, <<-9, 0, 261>>, <<10, 0, 260>>,
                  <<6, 8, 260>>, <<5, 0, 100>>, <<0, 0, -260>> }
  IN {[sats |-> <<p1, p2, FrontPoint>>, rings |-> [r \in 1..rings |-> FrontRing],
       path |-> <<FrontPoint>>] : p1 \in points, p2 \in points}

MaxHoverFrames == 1

NextHover ==
  \/ LoadStarlink(<<Steady(520, "A"), Steady(520, "B"),
                    GoodDoc(Some(520), Some("C"), <<Pos(900), Pos(900), Pos(900), Pos(900)>>)>>)
  \/ SyncInclinationGroups
  \/ LoadingDone
  \/ StartLoop
  \/ \E s \in {<<400, 300>>, <<409, 300>>} : handleCanvasMouseMove(s[1], s[2])
  \/ \E gap \in PickGaps, view \in HoverViews(Len(countryPolygons)) :
       frameCount < MaxHoverFrames /\ Len(docs) = 3 /\ draw(gap, 0, 0, view)

SpecHover == Init /\ [][NextHover]_vars

(***************************************************************************)
(* SpecGeo: satellites over the longitudes of the ring vertices.           *)
(***************************************************************************)
MaxGeoFrames == 2

NextGeo ==
  \/ /\ load = "fetching"
     /\ \E lon \in {0, 20, 90, 180, -160} :
          LoadStarlink(<<[Steady(520, "A") EXCEPT !.lons = <<lon>>], Steady(520, "B")>>)
  \/ SyncInclinationGroups
  \/ LoadingDone
  \/ StartLoop
  \/ \E checked \in BOOLEAN : SetShowAllTrajectories(checked)
  \/ SyncTrajectoryRefs
  \/ \E gap \in {250, TrajectoryStepMs} :
       frameCount < MaxGeoFrames
       /\ draw(gap, 0, 0, FrontView(Len(docs), Len(countryPolygons)))

SpecGeo == Init /\ [][NextGeo]_vars

(***************************************************************************)
(* SpecSame: two objects of different inclination groups under one display *)
(* name, given by the records or by the default for a missing name.        *)
(***************************************************************************)
\* Each satellite in turn under the first spot with the other behind the globe, and
\* one under each spot.
SameViews(rings) ==
  {[sats |-> sats, rings |-> [r \in 1..rings |-> FrontRing], path |-> sats] :
     sats \in {<<FrontPoint, BehindPoint>>, <<BehindPoint, FrontPoint>>,
               <<NearPoint, FrontPoint>>}}

MaxSameFrames == 2

NextSame ==
  \/ /\ load = "fetching"
     /\ \E allDocs \in
            { <<Steady(520, "A"), Steady(710, "A")>>,
              <<GoodDoc(Some(520), None, SteadyTrack), GoodDoc(Some(710), None, SteadyTrack)>>,
              <<Steady(520, "A"), Steady(710, "B")>> } : LoadStarlink(allDocs)
  \/ SyncInclinationGroups
  \/ LoadingDone
  \/ StartLoop
  \/ \E s \in PickSpots : Idle /\ handleCanvasMouseMove(s[1], s[2])
  \/ Idle /\ mouseCanvas \in PickSpots
       /\ handleMouseDown(0, mouseCanvas[1], mouseCanvas[2])
  \/ handleMouseUp
  \/ clicks.due /\ handleClick(mouseCanvas[1], mouseCanvas[2])
  \/ \E gap \in PickGaps, view \in SameViews(Len(countryPolygons)) :
       frameCount < MaxSameFrames /\ Idle /\ Len(docs) = 2 /\ draw(gap, 0, 0, view)

SpecSame == Init /\ [][NextSame]_vars

(***************************************************************************)
(* SpecDuration: the show-all checkbox and the duration slider.            *)
(***************************************************************************)
MaxDurationFrames == 1

NextDuration ==
  \/ LoadStarlink(PickDocs)
  \/ SyncInclinationGroups
  \/ LoadingDone
  \/ StartLoop
  \/ \E checked \in BOOLEAN : SetShowAllTrajectories(checked)
  \/ \E value \in 1..450 : SetTrajectoryMinutes(value)
  \/ SyncTrajectoryRefs
  \/ \E gap \in PickGaps :
       frameCount < MaxDurationFrames
       /\ draw(gap, 0, 0, FrontView(Len(docs), Len(countryPolygons)))

SpecDuration == Init /\ [][NextDuration]_vars

(***************************************************************************)
(* SpecTraj: the trajectories of a frame.  The records differ in what the  *)
(* propagator answers over the fifty minutes after the load.               *)
(***************************************************************************)
TrajDoc(name, track, lons) ==
  [GoodDoc(Some(530), Some(name), track) EXCEPT !.lons = lons]

LonsFrom(first, steps) ==
  [k \in 1..(Len(steps) + 1) |-> first + SeqSum(SubSeq(steps, 1, k - 1))]

TrajDocs ==
  { TrajDoc("steady", SteadyTrack, SteadyLons),
    TrajDoc("lost", <<Pos(550), Pos(550), Pos(550), PosNone>>, SteadyLons),
    TrajDoc("nan", <<Pos(550), Pos(550), Pos(550), PosNaN>>, SteadyLons),
    TrajDoc("low", <<Pos(200), Pos(200), Pos(200), Pos(150)>>, SteadyLons),
    TrajDoc("sunk", <<Pos(200), Pos(200), Pos(200), Pos(99)>>, SteadyLons),
    TrajDoc("spread100", <<Pos(760), Pos(800), Pos(800), Pos(860)>>, SteadyLons),
    TrajDoc("spread101", <<Pos(760), Pos(800), Pos(800), Pos(861)>>, SteadyLons),
    TrajDoc("still", SteadyTrack, <<0, 0, 0, 0, 0, 0, 0, 0, 0, 0, 0, 0>>),
    TrajDoc("step31", SteadyTrack,
            LonsFrom(-100, <<20, 20, 20, 20, 31, 20, 20, 20, 20, 20, 20>>)),
    TrajDoc("step33", SteadyTrack,
            LonsFrom(-100, <<20, 20, 20, 20, 33, 20, 20, 20, 20, 20, 20>>)),
    TrajDoc("step10", SteadyTrack,
            LonsFrom(-100, <<20, 20, 20, 20, 10, 20, 20, 20, 20, 20, 20>>)),
    TrajDoc("step9", SteadyTrack,
            LonsFrom(-100, <<20, 20, 20, 20, 9, 20, 20, 20, 20, 20, 20>>)),
    TrajDoc("tenth", SteadyTrack,
            LonsFrom(-100, <<20, 20, 20, 20, 20, 20, 20, 20, 40, 40, 40>>)),
    TrajDoc("later", SteadyTrack,
            LonsFrom(-100, <<20, 20, 20, 20, 20, 20, 20, 20, 20, 40, 20>>)) }

TrajDocLists ==
  {<<d>> : d \in TrajDocs}
    \cup {<<TrajDoc("steady", SteadyTrack, SteadyLons),
            TrajDoc("later", SteadyTrack,
                    LonsFrom(-100, <<20, 20, 20, 20, 20, 20, 20, 20, 20, 40, 20>>)),
            TrajDoc("lost", <<Pos(550), Pos(550), Pos(550), PosNone>>, SteadyLons)>>}

MaxTrajFrames == 3

\* 299100 ms after the loop starts the simulated time is 100 ms before the end of the
\* first five-minute slot.
TrajGaps == {100, 299100}

NextTraj ==
  \/ /\ load = "fetching"
     /\ \E allDocs \in TrajDocLists : LoadStarlink(allDocs)
  \/ SyncInclinationGroups
  \/ LoadingDone
  \/ StartLoop
  \/ \E checked \in BOOLEAN : SetShowAllTrajectories(checked)
  \/ SyncTrajectoryRefs
  \/ \E gap \in TrajGaps :
       frameCount < MaxTrajFrames
       /\ draw(gap, 0, 0, FrontView(Len(docs), Len(countryPolygons)))

SpecTraj == Init /\ [][NextTraj]_vars

(***************************************************************************)
(* The simulation clock (SpecClock).  A step is a frame iff it increments  *)
(* frameCount; in such a step speedRef is the speed the frame reads,       *)
(* lastFrameTime' - lastFrameTime is its dt, and pausedTime # None says    *)
(* that the frame before it ran at speed 0.                                *)
(***************************************************************************)
IsFrame == frameCount' = frameCount + 1

\* C1: while speed = 0, the simulated time a frame computes at line 729 is the same
\* in every frame of the pause, whatever real time passes between the frames and
\* inside a frame between the clock update and that read.
C1_PausedSimDateConstant ==
  [][(IsFrame /\ speedRef = 0 /\ pausedTime # None) => simDate' = simDate]_vars

\* C2: the first frame after a pause that runs at speed N > 0 discards the anchor and
\* computes the frozen value (the anchor, or the simulated time of the last paused
\* frame) plus N times the time elapsed since the last paused frame.
C2_ResumeFromFrozenValue ==
  [][(IsFrame /\ speedRef > 0 /\ pausedTime # None) =>
       /\ pausedTime' = None
       /\ \/ simDate' = Some(pausedTime[1] + speedRef * (lastFrameTime' - lastFrameTime))
          \/ simDate' = Some(simDate[1] + speedRef * (lastFrameTime' - lastFrameTime))]_vars

\* C3: a frame at speed N > 0 adds exactly dt * (N - 1) to the offset; at speed 1
\* the offset is unchanged, and with offset 0 the simulated time is the wall clock as
\* read at line 729, no more than one frame's elapsed time after the frame's timestamp.
C3_OffsetGrowth ==
  [][(IsFrame /\ speedRef > 0) =>
       /\ timeOffset' = timeOffset + (lastFrameTime' - lastFrameTime) * (speedRef - 1)
       /\ speedRef = 1 => timeOffset' = timeOffset
       /\ (speedRef = 1 /\ timeOffset = 0) =>
            /\ simDate' = Some(clock')
            /\ simDate'[1] - lastFrameTime' >= 0
            /\ simDate'[1] - lastFrameTime' <= lastFrameTime' - lastFrameTime]_vars

\* C3 witness: the first frame ran at speed 1 from offset 0, the second at 100x and
\* left the offset at 99 times its dt.
C3_Witness ==
  /\ frameCount = 2
  /\ frame.speed = 100
  /\ frame.dt > 0
  /\ timeOffset = 99 * frame.dt
  /\ simDate = Some(clock + timeOffset)

Rebuilt == lastSatUpdate' = lastFrameTime'

\* Object i of satellitesRef belongs to group g: g.minInc <= inclination < g.maxInc.
InGroup(i, g) == g.minInc * 10 <= satellites[i].inc /\ satellites[i].inc < g.maxInc * 10

\* Object i is to be shown under the flags of groups at simulated time date: its
\* group is enabled, its propagation resolves, its altitude is in 200..800 km.
Shown(i, groups, date) ==
  /\ \E k \in 1..Len(groups) : groups[k].enabled /\ InGroup(i, groups[k])
  /\ LET p == Propagate(docs[satellites[i].satrec].track, date)
     IN p.res = "ok" /\ p.alt >= 200 /\ p.alt <= 800

CacheExact(cache, groups, date) ==
  /\ \A i \in 1..Len(satellites) :
       Cardinality({k \in 1..Len(cache) : cache[k].satrec = satellites[i].satrec})
         = IF Shown(i, groups, date) THEN 1 ELSE 0
  /\ \A k \in 1..Len(cache) : \E i \in 1..Len(satellites) :
       /\ cache[k].satrec = satellites[i].satrec
       /\ cache[k].color = satellites[i].color
       /\ cache[k].name = satellites[i].name
  /\ \A i \in 1..Len(satellites) :
       (/\ \A k \in 1..Len(groups) : InGroup(i, groups[k]) => groups[k].enabled
        /\ LET p == Propagate(docs[satellites[i].satrec].track, date)
           IN p.res = "ok" /\ p.alt >= 200 /\ p.alt <= 800)
       => \E k \in 1..Len(cache) : cache[k].satrec = satellites[i].satrec

\* C5 as claimed: a frame rebuilds the cache exactly when now - lastUpdate > interval
\* (200 ms while dragging, 100 ms at rest) and every other frame reuses the buffer.
C5_RebuildOnlyOnInterval ==
  [][IsFrame =>
       /\ Rebuilt <=> lastFrameTime' - lastSatUpdate > (IF isDragging THEN 200 ELSE 100)
       /\ ~Rebuilt => cachedSatPositions' = cachedSatPositions]_vars

\* C5 as amended: a frame rebuilds the cache exactly when now - lastUpdate > interval
\* or the cached buffer is empty; every other frame reuses the buffer unchanged, so a
\* rebuild less than one interval after the one before it found the buffer empty.
C5_RebuildOnIntervalOrEmpty ==
  [][IsFrame =>
       /\ Rebuilt <=> \/ lastFrameTime' - lastSatUpdate > (IF isDragging THEN 200 ELSE 100)
                      \/ Len(cachedSatPositions) = 0
       /\ ~Rebuilt => /\ cachedSatPositions' = cachedSatPositions
                      /\ lastSatUpdate' = lastSatUpdate
       /\ (Rebuilt /\ Len(cachedSatPositions) # 0) =>
            lastFrameTime' - lastSatUpdate > (IF isDragging THEN 200 ELSE 100)]_vars

\* C5 witness: a frame during a drag, exactly 200 ms after the last rebuild, reused a
\* nonempty buffer.
C5_Witness ==
  /\ isDragging
  /\ frameCount >= 2
  /\ lastFrameTime - lastSatUpdate = 200
  /\ Len(cachedSatPositions) > 0

C7_NextFrameReflectsToggle ==
  [][(IsFrame /\ toggled) =>
       /\ Rebuilt
       /\ CacheExact(cachedSatPositions', inclinationGroups, simDate'[1])]_vars

(***************************************************************************)
(* Ingestion (SpecIngest).  The record behind satellites[k] is             *)
(* docs[satellites[k].satrec]; its inclination value v is INCLINATION, or  *)
(* 0 when the record has none.                                             *)
(***************************************************************************)
Buckets == {b \in -20..190 : b % 10 = 0}

ValueOf(d) == IF d.inc = None THEN 0 ELSE d.inc[1]

\* The bucket of v by the claim's rule: the multiple b of 10 with b <= v < b + 10.
BucketOfValue(v10) == CHOOSE b \in Buckets : b * 10 <= v10 /\ v10 < (b + 10) * 10

Accepted == {satellites[k].satrec : k \in 1..Len(satellites)}

\* C8: every ingested object is in the bucket b = floor(v / 10) * 10 of its
\* inclination v: b is a multiple of 10, b <= v < b + 10, and the object's group id
\* is b's decimal string; an object without inclination counts as v = 0.
C8_BucketIsFloorOfInclination ==
  \A k \in 1..Len(satellites) :
    LET v == ValueOf(docs[satellites[k].satrec])
    IN \E b \in Buckets :
         /\ b * 10 <= v /\ v < (b + 10) * 10
         /\ satellites[k].inc = v
         /\ satellites[k].group = NumToString(b)

\* C8 witness: objects at 59.9 degrees and without inclination were ingested into
\* buckets 50 and 0.
C8_Witness ==
  /\ Len(satellites) = 2
  /\ docs[satellites[1].satrec].inc = Some(599) /\ satellites[1].group = <<"5", "0">>
  /\ docs[satellites[2].satrec].inc = None /\ satellites[2].group = <<"0">>

RECURSIVE SumOfCounts(_)
SumOfCounts(G) == IF Len(G) = 0 THEN 0 ELSE G[1].count + SumOfCounts(Tail(G))

GroupsDescribe(G, sats, tle) ==
  LET B(k) == BucketOfValue(sats[k].inc)
      members(b) == {k \in 1..Len(sats) : B(k) = b}
  IN /\ {G[g].minInc : g \in 1..Len(G)} = {B(k) : k \in 1..Len(sats)}
     /\ \A g \in 1..Len(G) - 1 : G[g].minInc < G[g + 1].minInc
     /\ \A g \in 1..Len(G) :
          /\ G[g].range = NumToString(G[g].minInc) \o <<"-">>
                            \o NumToString(G[g].minInc + 10) \o <<"deg">>
          /\ G[g].maxInc = G[g].minInc + 10
          /\ G[g].enabled
          /\ G[g].count = Cardinality(members(G[g].minInc))
          /\ \A k \in members(G[g].minInc) : sats[k].color = G[g].color
     /\ SumOfCounts(G) = Len(sats)
     /\ tle = Len(sats)
     /\ [k \in 1..Len(sats) |-> sats[k].inc] = <<520, 710, 980>> =>
          G = << [range |-> <<"5", "0", "-", "6", "0", "deg">>, minInc |-> 50,
                  maxInc |-> 60, count |-> 1, color |-> <<99, 102, 241>>,
                  enabled |-> TRUE],
                 [range |-> <<"7", "0", "-", "8", "0", "deg">>, minInc |-> 70,
                  maxInc |-> 80, count |-> 1, color |-> <<52, 211, 153>>,
                  enabled |-> TRUE],
                 [range |-> <<"9", "0", "-", "1", "0", "0", "deg">>, minInc |-> 90,
                  maxInc |-> 100, count |-> 1, color |-> <<251, 146, 60>>,
                  enabled |-> TRUE] >>

\* C9: ingestion produces exactly one group per bucket of the accepted objects, in
\* ascending bucket order, labelled "b-(b+10)deg", enabled, counting the accepted
\* objects of its bucket (the counts sum to the accepted total), coloured as each of
\* its members; inclinations 52, 71 and 98 give the groups 50-60, 70-80 and 90-100
\* with count 1 and colours (99,102,241), (52,211,153), (251,146,60).
C9_GroupsOfIngestion ==
  [][(load = "fetching" /\ load' = "ingested") =>
       GroupsDescribe(inclinationGroups', satellites', stats'.tle)]_vars

\* C9 witness: the three objects at 52, 71 and 98 degrees were ingested into three
\* groups.
C9_Witness ==
  /\ load = "ingested"
  /\ [k \in 1..Len(satellites) |-> satellites[k].inc] = <<520, 710, 980>>
  /\ Len(inclinationGroups) = 3
  /\ inclinationGroups[2].color = <<52, 211, 153>>

\* The checks of the claim, on record d: sample k is the load-time sample at
\* (k - 1) * 10 minutes after the load.
PassesGate(d) ==
  /\ d.st /\ d.line1 /\ d.line2
  /\ d.decayed # 1
  /\ ~d.decayDate
  /\ d.parse = "ok"
  /\ d.ecco <= 10
  /\ \A k \in 1..3 : d.track[k].res = "ok" /\ d.track[k].alt >= 200 /\ d.track[k].alt <= 1000
  /\ \A j, k \in 1..3 : d.track[j].alt - d.track[k].alt <= 50

IngestedExactlyPassing ==
  /\ load # "ingested" => satellites = <<>>
  /\ load = "ingested" =>
       /\ \A i \in 1..Len(docs) : i \in Accepted <=> PassesGate(docs[i])
       /\ \A k \in 1..Len(satellites) - 1 : satellites[k].satrec < satellites[k + 1].satrec
       /\ Accepted \subseteq 1..Len(docs)

\* C10: a record is in the working set iff it has both element lines, is not flagged
\* decayed, has no decay date, parses, has eccentricity at most 0.01, and its three
\* load-time samples resolve to altitudes in 200..1000 km no more than 50 km apart;
\* each such record is in the set once, and the set does not change after ingestion.
C10_IngestionGate ==
  /\ []IngestedExactlyPassing
  /\ [][load = "ingested" => satellites' = satellites /\ docs' = docs]_vars

\* C10 witness: of two records, the one carrying a decay date was left out, the other
\* is in the set, and a frame has run since.
C10_Witness ==
  /\ load = "ingested"
  /\ frameCount = 1
  /\ Len(docs) = 2
  /\ docs[1].decayDate
  /\ Accepted = {2}

(***************************************************************************)
(* The trajectories (SpecTraj).  In a frame step the handles               *)
(* drawTrajectory is called for are those of the new cache when show-all   *)
(* is on, otherwise the selected one.                                      *)
(***************************************************************************)
QueriedNow ==
  LET handles == QueriedHandles(showAllTrajectoriesRef, selectedSat, cachedSatPositions')
  IN {handles[i] : i \in 1..Len(handles)}

ValidityTtlMs == 30 * 1000

\* C11: a validity verdict computed for a handle at time T is reused, not recomputed,
\* by every query for that handle at a time T' with T' - T < 30 s, and is recomputed
\* by a query with T' - T >= 30 s.
C11_VerdictReusedFor30s ==
  [][IsFrame =>
       \A h \in QueriedNow \cap DOMAIN validity :
         IF lastFrameTime' - validity[h].at < ValidityTtlMs
         THEN validity'[h] = validity[h]
         ELSE validity'[h].at = lastFrameTime']_vars

\* The sample of handle h at the i-th instant (i = 0..9) after the simulated time sim.
SampleOf(h, sim, i) ==
  LET t == sim + i * 5 * 60 * 1000
      p == Propagate(docs[h].track, t)
  IN [resolved |-> p.res = "ok", alt |-> p.alt, lon |-> LonAt(docs[h], t)]

SampleGap(h, sim, k) == SampleDistance(SampleOf(h, sim, k - 1), SampleOf(h, sim, k))

Rejected(h, sim) ==
  \/ \E i \in 0..9 : ~SampleOf(h, sim, i).resolved
  \/ \E i \in 0..9 : SampleOf(h, sim, i).alt < 100 \/ SampleOf(h, sim, i).alt > 2000
  \/ \E i, j \in 0..9 : SampleOf(h, sim, i).alt - SampleOf(h, sim, j).alt > 100
  \/ LET total == SeqSum([k \in 1..9 |-> SampleGap(h, sim, k)])
     IN \E k \in 1..9 : 2 * Abs(9 * SampleGap(h, sim, k) - total) > total

Drawn == {trajectories[k].satrec : k \in 1..Len(trajectories)}

\* C20: the verdict of the validity filter for a handle is false iff one of ten samples
\* five minutes apart from the simulated time on is unresolvable or outside 100..2000
\* km, or the sampled altitudes span more than 100 km, or one of the nine distances
\* between consecutive samples is more than 50% away from their mean; no trajectory is
\* drawn for a handle whose verdict is false.
C20_ValidityFilter ==
  \A h \in DOMAIN validity :
    validity[h].at = lastFrameTime =>
      /\ validity[h].valid = ~Rejected(h, simDate[1])
      /\ ~validity[h].valid => h \notin Drawn

C20_Witness ==
  /\ Len(docs) = 3
  /\ DOMAIN validity = {1, 2, 3}
  /\ validity[1].valid /\ ~validity[2].valid /\ ~validity[3].valid
  /\ Drawn = {1}

(***************************************************************************)
(* Picking (SpecPick).  A click step is a step that handles the click the  *)
(* browser owes; the click is where the pointer is, at mouseCanvas, and    *)
(* the press before it at mouseDownPos.                                    *)
(***************************************************************************)
IsClick == clicks.due /\ ~clicks'.due

ClickWasDrag ==
  LET dx == mouseCanvas[1] - mouseDownPos[1]
      dy == mouseCanvas[2] - mouseDownPos[2]
  IN dx * dx + dy * dy > 16

\* C12: a click promotes the hover target to selected only when the pointer moved at
\* most 4 px between mouse-down and click; a click that ends a drag never changes the
\* selection, whether or not a hover target is present.
C12_DragClickKeepsSelection ==
  [][IsClick /\ ClickWasDrag => selectedSat' = selectedSat]_vars

\* C13: the selection changes in no step but a click; it is cleared only by a
\* non-drag click with no hover target and replaced only by a click on a hover target,
\* which becomes the selection.
C13_SelectionPersists ==
  [][selectedSat' # selectedSat =>
       /\ IsClick
       /\ selectedSat' = None => hoveredSat = None /\ ~ClickWasDrag
       /\ selectedSat' # None =>
            /\ hoveredSat # None
            /\ selectedSat'[1].name = hoveredSat[1].name]_vars

\* A selection made before the last frame is still there after that frame, a drag,
\* the change of a control and the loss of the hover target.
C13_Witness ==
  /\ selectedSat # None
  /\ frameCount = MaxPickFrames
  /\ hoveredSat = None
  /\ dragRot # <<-250, 440>>
  /\ ~ControlsAtRest

(***************************************************************************)
(* Teardown (SpecTeardown).                                                *)
(***************************************************************************)
\* C14: after the view is torn down no frame callback runs.
C14_NoFrameAfterTeardown == [][~mounted => ~IsFrame]_vars

InputState ==
  <<isDragging, isRightDragging, mouseDownPos, lastMouse, dragRot, panOffset, zoom,
    mouseCanvas, selectedSat>>

\* C15: teardown detaches every listener attached when the render loop started, and
\* after teardown no step changes the drag flags, the rotation, the pan, the zoom, the
\* pointer positions or the selection.
C15_ListenersDetached ==
  [][/\ mounted /\ ~mounted' => listeners' = {}
     /\ ~mounted => listeners' = {} /\ InputState' = InputState]_vars

\* The view was torn down in the middle of a drag, with every listener attached and
\* a satellite selected, and a frame has run since.
C15_Witness ==
  /\ ~mounted
  /\ rafPending
  /\ isDragging
  /\ selectedSat # None
  /\ dragRot # <<-250, 440>>
  /\ zoom # 1000
  /\ frameCount = MaxTeardownFrames

(***************************************************************************)
(* The loads (SpecLoad).                                                   *)
(***************************************************************************)
\* C16: the render loop is started only after both the border-geometry load and the
\* orbital-element load have completed successfully.
C16_LoopNeedsBothLoads == rafPending => worldMap = "ready" /\ load = "ingested"

(***************************************************************************)
(* The border rings (SpecClip).  ringPaths[r] is what the last frame made  *)
(* of the projected ring viewed[1].rings[r].                               *)
(***************************************************************************)
RingsDrawn == IF viewed = None THEN {} ELSE 1..Len(ringPaths)

ProjectedRing(r) == viewed[1].rings[r]

AllInFront(ring) == \A k \in 1..Len(ring) : ring[k].z > 0

AllBehind(ring) == \A k \in 1..Len(ring) : ring[k].z <= 0

\* C17: for a ring whose points all have depth > 0 the clipped path is the projected
\* ring, point for point and in order, with no limb point; for a ring whose points
\* all have depth <= 0 the clipped path is empty and neither a fill nor a stroke is
\* emitted.
C17_RingInFrontOrBehind ==
  \A r \in RingsDrawn :
    LET ring == ProjectedRing(r)
        out == ringPaths[r]
    IN /\ AllInFront(ring) =>
            /\ Len(out.clipped) = Len(ring)
            /\ \A k \in 1..Len(ring) :
                 /\ ~out.clipped[k].isLimb
                 /\ out.clipped[k].den = 1
                 /\ out.clipped[k].xn = ring[k].x
                 /\ out.clipped[k].yn = ring[k].y
       /\ AllBehind(ring) =>
            /\ out.clipped = <<>>
            /\ ~out.filled /\ out.fill = <<>>
            /\ out.strokes = <<>>

\* A four-point ring in front of the limb plane has been filled and stroked.
C17_Witness ==
  /\ RingsDrawn # {}
  /\ \E r \in RingsDrawn :
       /\ Len(ProjectedRing(r)) = MaxRingLen
       /\ AllInFront(ProjectedRing(r))
       /\ ringPaths[r].filled
       /\ Len(ringPaths[r].strokes) = MaxRingLen

\* C18: no point of a clipped path comes from a division by a zero depth delta,
\* whatever the ring, and a clipped path of fewer than 3 points is not filled.
C18_NoZeroDepthDelta ==
  \A r \in RingsDrawn :
    LET out == ringPaths[r]
    IN /\ \A k \in 1..Len(out.clipped) : out.clipped[k].den # 0
       /\ Len(out.clipped) < 3 => ~out.filled /\ out.fill = <<>>

\* A ring of four points, all at depth 0, has been through the clipping loop.
C18_Witness ==
  /\ RingsDrawn # {}
  /\ \E r \in RingsDrawn :
       /\ Len(ProjectedRing(r)) = MaxRingLen
       /\ \A k \in 1..MaxRingLen : ProjectedRing(r)[k].z = 0
       /\ ~ringPaths[r].filled

(***************************************************************************)
(* Occlusion (SpecOcclude).  The zoom is 1 and the globe is centred, so    *)
(* the point <<x, y, z>> is drawn at (CanvasW / 2 + x, CanvasH / 2 - y).  *)
(***************************************************************************)
\* d = sqrt(x^2 + y^2) < R and z < sqrt(R^2 - d^2), on the squares.
Occluded(pt) ==
  LET d2 == pt[1] * pt[1] + pt[2] * pt[2]
  IN /\ d2 < EARTH_R * EARTH_R
     /\ pt[3] < 0 \/ pt[3] * pt[3] < EARTH_R * EARTH_R - d2

UnderPointer(pt) ==
  LET dx == CanvasW \div 2 + pt[1] - mouseCanvas[1]
      dy == CanvasH \div 2 - pt[2] - mouseCanvas[2]
  IN dx * dx + dy * dy < 10 * 10

\* The points of the satellites of the frame that ends in the primed state.
FramePoints == {viewed'[1].sats[cachedSatPositions'[k].satrec] :
                  k \in 1..Len(cachedSatPositions')}

\* C19: a point is occluded iff d < R and z < sqrt(R^2 - d^2); so a point with d >= R
\* is never occluded, the point at d = 0 and depth R is not occluded and a point with
\* d < R and negative depth is occluded; the hover test, the drawing pass and the
\* trajectory sampling give this verdict for the same coordinates.
C19_OcclusionUniform ==
  [][IsFrame =>
       /\ \A pt \in FramePoints :
            /\ OccludedHover(pt[1], pt[2], pt[3]) = Occluded(pt)
            /\ OccludedRender(pt[1], pt[2], pt[3]) = Occluded(pt)
            /\ TrajectoryVisible(pt[1], pt[2], pt[3]) = ~Occluded(pt)
            /\ pt[1] * pt[1] + pt[2] * pt[2] >= EARTH_R * EARTH_R => ~Occluded(pt)
            /\ pt = <<0, 0, EARTH_R>> => ~Occluded(pt)
            /\ pt[1] * pt[1] + pt[2] * pt[2] < EARTH_R * EARTH_R /\ pt[3] < 0
                 => Occluded(pt)
       /\ \A k \in 1..Len(cachedSatPositions') :
            LET h == cachedSatPositions'[k].satrec
            IN (\E j \in 1..Len(rendered') : rendered'[j] = h)
                 = ~Occluded(viewed'[1].sats[h])
       /\ (hoveredSat' # None) = (\E pt \in FramePoints : UnderPointer(pt) /\ ~Occluded(pt))
       /\ \A j \in 1..Len(trajectories') :
            LET pt == viewed'[1].path[1]
            IN trajectories'[j].lines
                 = IF Occluded(pt) THEN {} ELSE 1..(trajectories'[j].points - 1)]_vars

\* The satellite sits on the surface point that faces the camera, under the pointer:
\* it is drawn, hovered and its trajectory is stroked.
C19_Witness ==
  /\ viewed # None
  /\ viewed[1].sats = <<(<<0, 0, EARTH_R>>)>>
  /\ mouseCanvas = <<CanvasW \div 2, CanvasH \div 2>>
  /\ rendered = <<1>>
  /\ hoveredSat # None
  /\ Len(trajectories) = 1 /\ trajectories[1].lines # {}

(***************************************************************************)
(* The hover target (SpecHover).  A cached point is on the screen at       *)
(* ScreenOf, in thousandths of a pixel.                                    *)
(***************************************************************************)
ScreenOf(pt) ==
  <<1000 * (CanvasW \div 2 + panOffset[1]) + pt[1] * zoom,
    1000 * (CanvasH \div 2 + panOffset[2]) - pt[2] * zoom>>

\* The squared distance to the pointer, for a point within the 10 px box around it.
PointerDist2(pt) ==
  LET dx == ScreenOf(pt)[1] - 1000 * mouseCanvas[1]
      dy == ScreenOf(pt)[2] - 1000 * mouseCanvas[2]
  IN dx * dx + dy * dy

Within10(pt) ==
  /\ Abs(ScreenOf(pt)[1] - 1000 * mouseCanvas[1]) < 10000
  /\ Abs(ScreenOf(pt)[2] - 1000 * mouseCanvas[2]) < 10000
  /\ PointerDist2(pt) < 10000 * 10000

Candidates == {pt \in FramePoints : ~Occluded(pt) /\ Within10(pt)}

\* C21: after a frame the hover target is set iff some cached point that is not
\* occluded lies strictly within 10 px of the pointer, and it is then such a point at
\* the least distance from the pointer; an occluded point is never the target.
C21_HoverIsNearestVisible ==
  [][IsFrame =>
       /\ (hoveredSat' # None) = (Candidates # {})
       /\ hoveredSat' # None =>
            \E pt \in Candidates :
              /\ ScreenOf(pt) = <<hoveredSat'[1].x, hoveredSat'[1].y>>
              /\ \A other \in Candidates : PointerDist2(pt) <= PointerDist2(other)]_vars

\* The pointer is at the centre, 9 px from the first satellite; the second one is at
\* the centre but behind the globe and the uncached third one is at the centre in
\* front of it: the first satellite is the hover target.
C21_Witness ==
  /\ viewed # None
  /\ Len(docs) = 3
  /\ viewed[1].sats = <<(<<9, 0, 260>>), (<<0, 0, -260>>), FrontPoint>>
  /\ mouseCanvas = <<400, 300>>
  /\ hoveredSat # None
  /\ hoveredSat[1].name = "A"

(***************************************************************************)
(* The direction of simulated time (SpecClock).                            *)
(***************************************************************************)
\* C22: simulated time never moves backwards: whatever the speeds, the simulated
\* time a frame uses is at least the simulated time the previous frame used (the
\* wall clock of the model never decreases).
C22_SimDateNeverDecreases ==
  [][(IsFrame /\ simDate # None) => simDate'[1] >= simDate[1]]_vars

(***************************************************************************)
(* The longitude convention (SpecGeo).  A placed point is r times a vector *)
(* of thousandths, so two placed points lie on one radial direction iff    *)
(* the vectors are equal.                                                  *)
(***************************************************************************)
SameRadial(p, rp, q, rq) == \A i \in 1..3 : p[i] \div rp = q[i] \div rq

RingVertices ==
  UNION {{placed.rings[r][i] : i \in 1..Len(placed.rings[r])} : r \in 1..Len(placed.rings)}

SamplesPlaced == {placed.samples[i][1] : i \in {j \in 1..Len(placed.samples) :
                                                  placed.samples[j] # None}}

\* C23: a cached satellite position and a trajectory sample at geographic position
\* (lon, lat) lie on the same radial direction from the globe centre as a ring vertex
\* at the same (lon, lat).
C23_SameLongitudeConvention ==
  \A v \in RingVertices :
    /\ \A k \in 1..Len(cachedSatPositions) :
         LET e == cachedSatPositions[k]
         IN (e.lon = v.lon /\ e.lat = v.lat) => SameRadial(e.xyz, e.altPx, v.xyz, v.r)
    /\ \A sample \in SamplesPlaced :
         (sample.lon = v.lon /\ sample.lat = v.lat)
           => SameRadial(sample.xyz, sample.r, v.xyz, v.r)

(***************************************************************************)
(* The object a click selects (SpecSame).  The hovered object is a cached  *)
(* satellite that the last frame drew at the hover target's position under *)
(* the hover target's name.                                                *)
(***************************************************************************)
HoveredObjects ==
  {k \in 1..Len(cachedSatPositions) :
     /\ cachedSatPositions[k].name = hoveredSat[1].name
     /\ ~Occluded(viewed[1].sats[cachedSatPositions[k].satrec])
     /\ ScreenOf(viewed[1].sats[cachedSatPositions[k].satrec])
          = <<hoveredSat[1].x, hoveredSat[1].y>>}

\* C24: a click that promotes the hover target selects the element handle and the
\* colour of the hovered object itself, also when two ingested objects share one
\* display name.
C24_ClickSelectsHoveredObject ==
  [][(IsClick /\ hoveredSat # None) =>
       /\ selectedSat' # None
       /\ \E k \in HoveredObjects :
            /\ selectedSat'[1].satrec = cachedSatPositions[k].satrec
            /\ selectedSat'[1].color = cachedSatPositions[k].color]_vars

(***************************************************************************)
(* The trajectory duration (SpecDuration).                                 *)
(***************************************************************************)
\* C25: after any sequence of show-all toggles and slider changes the trajectory
\* duration lies in the slider range of the current mode: 1..45 minutes when show-all
\* is on, 45..450 minutes when it is off.
C25_DurationInSliderRange ==
  IF showAllTrajectories THEN trajectoryMinutes >= 1 /\ trajectoryMinutes <= 45
  ELSE trajectoryMinutes >= 45 /\ trajectoryMinutes <= 450

\* Show-all has just been switched off at 30 minutes (the frame loop still has the
\* old values) and the duration is back at 270.
C25_Witness ==
  /\ ~showAllTrajectories
  /\ showAllTrajectoriesRef
  /\ trajectoryMinutesRef = 30
  /\ trajectoryMinutes = 270

(***************************************************************************)
(* The limb points of a clipped path (SpecClip).  Edge i of a ring joins   *)
(* point i to its cyclic successor; a path is walked cyclically too.       *)
(***************************************************************************)
FrontFacing(p) == p.z > 0

Successor(k, n) == (k % n) + 1

Predecessor(k, n) == ((k + n - 2) % n) + 1

Flips(ring) ==
  {i \in 1..Len(ring) : FrontFacing(ring[i]) # FrontFacing(ring[Successor(i, Len(ring))])}

LimbPoints(path) == {j \in 1..Len(path) : path[j].isLimb}

\* Path point j is the limb point of edge i: it lies where the edge crosses depth 0
\* and its neighbour in the path, on the side of the edge's front-facing point, is that
\* point.
LimbOfEdge(path, j, ring, i) ==
  LET p == ring[i]
      next == ring[Successor(i, Len(ring))]
      front == IF FrontFacing(p) THEN p ELSE next
      back == IF FrontFacing(p) THEN next ELSE p
      beside == path[IF FrontFacing(p) THEN Predecessor(j, Len(path))
                     ELSE Successor(j, Len(path))]
  IN /\ path[j].isLimb
     /\ path[j].den = back.z - front.z
     /\ path[j].xn = back.x * (back.z - front.z) + back.z * (front.x - back.x)
     /\ path[j].yn = back.y * (back.z - front.z) + back.z * (front.y - back.y)
     /\ ~beside.isLimb
     /\ beside.xn = front.x /\ beside.yn = front.y /\ beside.den = 1

\* C26: for every closed ring and every view the clipped path has an even number of
\* limb points, one for each visibility flip between cyclically consecutive ring
\* points, and every limb point is next, in the walk of the path, to the
\* front-facing point of the edge on which the flip occurs.
C26_LimbPointsPairUp ==
  \A r \in RingsDrawn :
    LET ring == ProjectedRing(r)
        path == ringPaths[r].clipped
    IN /\ Cardinality(LimbPoints(path)) % 2 = 0
       /\ Cardinality(LimbPoints(path)) = Cardinality(Flips(ring))
       /\ \A j \in LimbPoints(path) : \E i \in Flips(ring) : LimbOfEdge(path, j, ring, i)
       /\ \A i \in Flips(ring) : \E j \in LimbPoints(path) : LimbOfEdge(path, j, ring, i)

\* A ring whose last point is behind the limb plane and whose first point is in front
\* of it: the closing edge flips, and its limb point ends the path.
C26_Witness ==
  /\ RingsDrawn # {}
  /\ \E r \in RingsDrawn :
       LET ring == ProjectedRing(r)
           path == ringPaths[r].clipped
       IN /\ Len(ring) = MaxRingLen
          /\ ring[Len(ring)].z < 0
          /\ ring[1].z > 0
          /\ Cardinality(LimbPoints(path)) = 2
          /\ path[Len(path)].isLimb

====
